---- MODULE Spec2Model ----
(***************************************************************************)
(* Model of the retrieval-and-augmentation pipeline of the travel          *)
(* itinerary chatbot: RAGEngine.generate_response (src/src/rag_engine.py)  *)
(* and the gateway fetchers of TravelDataAPI (src/src/apis/travel_data.py).*)
(*                                                                         *)
(* Text is modelled as a sequence of one-character strings, so that the    *)
(* keyword tests, the tokenisation and the pattern matches of the code are *)
(* computed on the characters of the query as the code computes them.      *)
(***************************************************************************)
EXTENDS Integers, Sequences, FiniteSets, TLC

(***************************************************************************)
(* Characters and the str methods the pipeline uses                        *)
(***************************************************************************)
UpperChars == <<"A","B","C","D","E","F","G","H","I","J","K","L","M","N","O","P","Q","R","S","T","U","V","W","X","Y","Z">>

LowerChars == <<"a","b","c","d","e","f","g","h","i","j","k","l","m","n","o","p","q","r","s","t","u","v","w","x","y","z">>

DigitChars == <<"0","1","2","3","4","5","6","7","8","9">>

Range(s) == { s[i] : i \in 1..Len(s) }

IsUpper(c) == c \in Range(UpperChars)

IsLetter(c) == c \in Range(UpperChars) \cup Range(LowerChars)

IsDigit(c) == c \in Range(DigitChars)

IsSpace(c) == c \in {" ", "\t", "\n"}

IndexIn(c, s) == CHOOSE i \in 1..Len(s) : s[i] = c

\* str.lower() on one character
LowerChar(c) == IF IsUpper(c) THEN LowerChars[IndexIn(c, UpperChars)] ELSE c

\* str.upper() on one character
UpperChar(c) == IF c \in Range(LowerChars) THEN UpperChars[IndexIn(c, LowerChars)] ELSE c

\* str.lower()
Lower(s) == [i \in 1..Len(s) |-> LowerChar(s[i])]

\* str.upper()
Upper(s) == [i \in 1..Len(s) |-> UpperChar(s[i])]

\* needle occurs in hay at position i
MatchesAt(hay, needle, i) ==
    /\ i >= 1
    /\ i + Len(needle) - 1 <= Len(hay)
    /\ \A j \in 1..Len(needle) : hay[i + j - 1] = needle[j]

\* Python's `needle in hay` on strings
Contains(hay, needle) == \E i \in 1..(Len(hay) - Len(needle) + 1) : MatchesAt(hay, needle, i)

\* any(word in text for word in keywords)
AnyKeywordIn(keywords, text) == \E k \in 1..Len(keywords) : Contains(text, keywords[k])

\* the places where a maximal run of non-whitespace starts
WordStarts(s) == { i \in 1..Len(s) : ~IsSpace(s[i]) /\ (i = 1 \/ IsSpace(s[i - 1])) }

\* the last place of the run of non-whitespace that holds i
WordEnd(s, i) ==
    CHOOSE e \in i..Len(s) :
        /\ \A j \in i..e : ~IsSpace(s[j])
        /\ (e = Len(s) \/ IsSpace(s[e + 1]))

\* str.split() with no argument: the maximal runs of non-whitespace, left to right
Split(s) ==
    LET starts == WordStarts(s)
        Nth(k) == CHOOSE i \in starts : Cardinality({ j \in starts : j < i }) = k - 1
    IN  [k \in 1..Cardinality(starts) |-> SubSeq(s, Nth(k), WordEnd(s, Nth(k)))]

RECURSIVE LStrip(_, _)
LStrip(s, chars) ==
    IF s # <<>> /\ Head(s) \in chars THEN LStrip(Tail(s), chars) ELSE s

RECURSIVE RStrip(_, _)
RStrip(s, chars) ==
    IF s # <<>> /\ s[Len(s)] \in chars THEN RStrip(SubSeq(s, 1, Len(s) - 1), chars) ELSE s

\* str.strip(chars)
Strip(s, chars) == RStrip(LStrip(s, chars), chars)

\* sep.join(parts) on lists of text pieces
RECURSIVE Join(_, _)
Join(sep, parts) ==
    IF parts = <<>> THEN <<>>
    ELSE IF Len(parts) = 1 THEN Head(parts)
         ELSE Head(parts) \o sep \o Join(sep, Tail(parts))

(***************************************************************************)
(* Keyword vocabularies of enhance_query_with_realtime_data                *)
(***************************************************************************)
city_keywords ==
    << <<"w","e","a","t","h","e","r">>,
       <<"t","e","m","p","e","r","a","t","u","r","e">>,
       <<"c","l","i","m","a","t","e">>,
       <<"v","i","s","i","t">>,
       <<"t","r","i","p">>,
       <<"t","r","a","v","e","l">>,
       <<"g","o","i","n","g">>,
       <<"p","l","a","n">>,
       <<"f","l","i","g","h","t">>,
       <<"h","o","t","e","l">> >>

skip_words ==
    << <<"W","h","a","t">>,
       <<"W","h","e","r","e">>,
       <<"W","h","e","n">>,
       <<"H","o","w">>,
       <<"W","h","y">>,
       <<"T","h","e">>,
       <<"I","s">>,
       <<"A","r","e">>,
       <<"C","a","n">>,
       <<"S","h","o","u","l","d">>,
       <<"W","i","l","l">>,
       <<"S","h","o","w">>,
       <<"T","e","l","l">>,
       <<"F","i","n","d">>,
       <<"G","e","t">>,
       <<"B","o","o","k">> >>

flight_keywords ==
    << <<"f","l","i","g","h","t">>,
       <<"f","l","y">>,
       <<"f","l","y","i","n","g">>,
       <<"a","i","r","l","i","n","e">> >>

hotel_keywords ==
    << <<"h","o","t","e","l">>,
       <<"a","c","c","o","m","m","o","d","a","t","i","o","n">>,
       <<"s","t","a","y">>,
       <<"l","o","d","g","i","n","g">>,
       <<"r","e","s","o","r","t">> >>

weather_keywords ==
    << <<"w","e","a","t","h","e","r">>,
       <<"t","e","m","p","e","r","a","t","u","r","e">>,
       <<"c","l","i","m","a","t","e">> >>

currency_keywords ==
    << <<"b","u","d","g","e","t">>,
       <<"c","o","s","t">>,
       <<"p","r","i","c","e">>,
       <<"e","x","p","e","n","s","i","v","e">>,
       <<"c","u","r","r","e","n","c","y">>,
       <<"e","x","c","h","a","n","g","e">>,
       <<"m","o","n","e","y">>,
       <<"d","o","l","l","a","r">>,
       <<"e","u","r","o">> >>

(***************************************************************************)
(* The queries a user may submit: up to MaxPhrases different phrases       *)
(* joined by a space.                                                      *)
(***************************************************************************)
MaxPhrases == 2

Phrases ==
    << <<"f","l","i","g","h","t"," ","f","r","o","m"," ","C","D","G"," ","t","o"," ","J","F","K"," ","o","n"," ","2","0","2","5","-","0","6","-","0","1">>,
       <<"f","l","y"," ","f","r","o","m"," ","P","a","r","i","s"," ","t","o"," ","L","o","n","d","o","n">>,
       <<"h","o","t","e","l",","," ","w","e","a","t","h","e","r"," ","a","n","d"," ","b","u","d","g","e","t"," ","i","n"," ","P","a","r","i","s"," ","u","n","t","i","l"," ","2","0","2","5","-","0","6","-","0","5">>,
       <<"W","h","a","t","'","s"," ","t","h","e"," ","w","e","a","t","h","e","r"," ","i","n"," ","P","a","r","i","s","?">>,
       <<"B","e","s","t"," ","t","i","m","e"," ","t","o"," ","v","i","s","i","t"," ","R","o","m","e">>,
       <<"D","o"," ","I"," ","n","e","e","d"," ","a"," ","v","i","s","a">> >>

PhraseLists ==
    UNION { { ps \in [1..n -> 1..Len(Phrases)] : \A i, j \in 1..n : i # j => ps[i] # ps[j] } :
            n \in 1..MaxPhrases }

QueryText(ps) == Join(<<" ">>, [i \in 1..Len(ps) |-> Phrases[ps[i]]])

\* queries submitted as they are, not joined with others
WholeQueries ==
    << <<"f","l","i","g","h","t"," ","f","r","o","m"," ","P","A","R"," ","t","o"," ","L","O","N"," ","o","n"," ","2","0","2","5","-","0","6","-","0","1">>,
       <<"f","l","y"," ","f","r","o","m"," ","P","a","r","i","s"," ","t","o"," ","L","o","n","d","o","n"," ","o","n"," ","2","0","2","5","-","0","6","-","0","1">>,
       <<"f","l","y"," ","f","r","o","m"," ","N","e","w"," ","Y","o","r","k"," ","t","o"," ","L","A"," ","o","n"," ","2","0","2","5","-","0","6","-","0","1">>,
       <<"f","l","i","g","h","t"," ","f","r","o","m"," ","C","D","G"," ","t","o"," ","J","F","K"," ","o","n"," ","2","0","2","5","-","1","3","-","4","5">>,
       <<"h","o","t","e","l"," ","i","n"," ","R","o","m","e"," ","2","0","2","5","-","0","2","-","3","0"," ","u","n","t","i","l"," ","2","0","2","5","-","1","3","-","0","1">>,
       <<"P","l","a","n"," ","a"," ","t","r","i","p"," ","t","o"," ","L","A","?">>,
       <<"f","l","y"," ","f","r","o","m"," ","L","i","s","b","o","n"," ","t","o"," ","L","A"," ","o","n"," ","2","0","2","5","-","0","6","-","0","1">> >>

Queries == { QueryText(ps) : ps \in PhraseLists } \cup Range(WholeQueries)

(***************************************************************************)
(* Location codes: RAGEngine.CITY_TO_AIRPORT and _extract_location_code    *)
(***************************************************************************)
CITY_TO_AIRPORT ==
    << <<<<"P","A","R">>, <<"C","D","G">>>>,
       <<<<"L","O","N">>, <<"L","H","R">>>>,
       <<<<"N","Y","C">>, <<"J","F","K">>>>,
       <<<<"T","Y","O">>, <<"N","R","T">>>>,
       <<<<"T","O","K">>, <<"N","R","T">>>>,
       <<<<"D","X","B">>, <<"D","X","B">>>>,
       <<<<"B","K","K">>, <<"B","K","K">>>>,
       <<<<"S","I","N">>, <<"S","I","N">>>>,
       <<<<"H","K","G">>, <<"H","K","G">>>>,
       <<<<"S","Y","D">>, <<"S","Y","D">>>>,
       <<<<"M","E","L">>, <<"M","E","L">>>>,
       <<<<"L","A","X">>, <<"L","A","X">>>>,
       <<<<"S","F","O">>, <<"S","F","O">>>>,
       <<<<"R","O","M">>, <<"F","C","O">>>>,
       <<<<"B","C","N">>, <<"B","C","N">>>>,
       <<<<"M","A","D">>, <<"M","A","D">>>>,
       <<<<"B","E","R">>, <<"B","E","R">>>>,
       <<<<"A","M","S">>, <<"A","M","S">>>>,
       <<<<"I","S","T">>, <<"I","S","T">>>> >>

city_name_mapping ==
    << <<<<"P","A","R","I","S">>, <<"C","D","G">>>>,
       <<<<"L","O","N","D","O","N">>, <<"L","H","R">>>>,
       <<<<"N","E","W"," ","Y","O","R","K">>, <<"J","F","K">>>>,
       <<<<"N","E","W","Y","O","R","K">>, <<"J","F","K">>>>,
       <<<<"T","O","K","Y","O">>, <<"N","R","T">>>>,
       <<<<"D","U","B","A","I">>, <<"D","X","B">>>>,
       <<<<"B","A","N","G","K","O","K">>, <<"B","K","K">>>>,
       <<<<"S","I","N","G","A","P","O","R","E">>, <<"S","I","N">>>>,
       <<<<"H","O","N","G"," ","K","O","N","G">>, <<"H","K","G">>>>,
       <<<<"H","O","N","G","K","O","N","G">>, <<"H","K","G">>>>,
       <<<<"S","Y","D","N","E","Y">>, <<"S","Y","D">>>>,
       <<<<"M","E","L","B","O","U","R","N","E">>, <<"M","E","L">>>>,
       <<<<"L","O","S"," ","A","N","G","E","L","E","S">>, <<"L","A","X">>>>,
       <<<<"L","O","S","A","N","G","E","L","E","S">>, <<"L","A","X">>>>,
       <<<<"S","A","N"," ","F","R","A","N","C","I","S","C","O">>, <<"S","F","O">>>>,
       <<<<"S","A","N","F","R","A","N","C","I","S","C","O">>, <<"S","F","O">>>>,
       <<<<"R","O","M","E">>, <<"F","C","O">>>>,
       <<<<"B","A","R","C","E","L","O","N","A">>, <<"B","C","N">>>>,
       <<<<"M","A","D","R","I","D">>, <<"M","A","D">>>>,
       <<<<"B","E","R","L","I","N">>, <<"B","E","R">>>>,
       <<<<"A","M","S","T","E","R","D","A","M">>, <<"A","M","S">>>>,
       <<<<"I","S","T","A","N","B","U","L">>, <<"I","S","T">>>>,
       <<<<"M","U","M","B","A","I">>, <<"B","O","M">>>>,
       <<<<"D","E","L","H","I">>, <<"D","E","L">>>>,
       <<<<"N","E","W"," ","D","E","L","H","I">>, <<"D","E","L">>>>,
       <<<<"N","E","W","D","E","L","H","I">>, <<"D","E","L">>>> >>

\* dict.get(key, default) on a table of <<key, value>> rows
DictGet(table, key, default) ==
    IF \E r \in 1..Len(table) : table[r][1] = key
    THEN table[CHOOSE r \in 1..Len(table) : table[r][1] = key][2]
    ELSE default

\* s[:n]
Prefix(s, n) == SubSeq(s, 1, IF Len(s) < n THEN Len(s) ELSE n)

\* a conversion that falls back on the whole text, not on its first 3 characters
ExtractLocationCodeWhole(location_text) ==
    LET location == Strip(Upper(location_text), {" ", "\t", "\n"})
    IN  IF Len(location) = 3
        THEN DictGet(CITY_TO_AIRPORT, location, location)
        ELSE DictGet(city_name_mapping, location, location)

\* RAGEngine._extract_location_code
ExtractLocationCode(location_text) ==
    LET location == Strip(Upper(location_text), {" ", "\t", "\n"})
    IN  IF Len(location) = 3
        THEN DictGet(CITY_TO_AIRPORT, location, location)
        ELSE DictGet(city_name_mapping, location, Prefix(location, 3))

(***************************************************************************)
(* The regular expressions of enhance_query_with_realtime_data             *)
(***************************************************************************)
SetMin(S) == CHOOSE x \in S : \A y \in S : x <= y

SetMax(S) == CHOOSE x \in S : \A y \in S : x >= y

\* the first place from i on that holds no whitespace (Len(s) + 1 when there is none)
SkipSpaces(s, i) ==
    LET stops == { j \in i..Len(s) : ~IsSpace(s[j]) }
    IN  IF stops = {} THEN (IF i > Len(s) THEN i ELSE Len(s) + 1) ELSE SetMin(stops)

\* s[i..] starts with the literal lit, ignoring case
LiteralAt(s, lit, i) ==
    /\ i >= 1
    /\ i + Len(lit) - 1 <= Len(s)
    /\ \A j \in 1..Len(lit) : LowerChar(s[i + j - 1]) = lit[j]

LettersAt(s, i, n) == i >= 1 /\ i + n - 1 <= Len(s) /\ \A j \in i..(i + n - 1) : IsLetter(s[j])

\* ([A-Z]{3})\s+to\s+([A-Z]{3}) anchored at i, under re.IGNORECASE: the two groups, or <<>>
CodePairAt(s, i) ==
    IF ~LettersAt(s, i, 3) THEN <<>>
    ELSE LET t == SkipSpaces(s, i + 3)
             d == SkipSpaces(s, t + 2)
         IN  IF /\ t > i + 3
                /\ LiteralAt(s, <<"t","o">>, t)
                /\ d > t + 2
                /\ LettersAt(s, d, 3)
             THEN << SubSeq(s, i, i + 2), SubSeq(s, d, d + 2) >>
             ELSE <<>>

\* (?:from\s+)?([A-Z]{3})\s+to\s+([A-Z]{3}) anchored at i: the optional prefix is tried first
FromToPatternAt(s, i) ==
    LET c == SkipSpaces(s, i + 4)
    IN  IF LiteralAt(s, <<"f","r","o","m">>, i) /\ c > i + 4 /\ CodePairAt(s, c) # <<>>
        THEN CodePairAt(s, c)
        ELSE CodePairAt(s, i)

\* re.search(from_to_pattern, user_query, re.IGNORECASE): the groups of the leftmost match
FromToPattern(s) ==
    LET starts == { i \in 1..Len(s) : FromToPatternAt(s, i) # <<>> }
    IN  IF starts = {} THEN <<>> ELSE FromToPatternAt(s, SetMin(starts))

IsNameChar(c) == IsLetter(c) \/ IsSpace(c)

\* the end of the run of [A-Za-z\s] characters that starts at i (i - 1 when there is none)
NameRunEnd(s, i) ==
    LET stops == { j \in i..Len(s) : ~IsNameChar(s[j]) }
    IN  IF stops = {} THEN (IF i > Len(s) THEN i - 1 ELSE Len(s)) ELSE SetMin(stops) - 1

\* (?:\s+on|\s+\d) anchored at i
RouteTailAt(s, i) ==
    LET e == SkipSpaces(s, i)
    IN  /\ e > i
        /\ \/ LiteralAt(s, <<"o","n">>, e)
           \/ (e <= Len(s) /\ IsDigit(s[e]))

\* \s+to\s+ anchored at i: the positions where the text after it may start (the
\* last whitespace run is greedy but may give characters back)
ToAt(s, i) ==
    LET t == SkipSpaces(s, i)
    IN  IF t > i /\ LiteralAt(s, <<"t","o">>, t) /\ SkipSpaces(s, t + 2) > t + 2
        THEN (t + 3)..SkipSpaces(s, t + 2)
        ELSE {}

\* from\s+([A-Za-z\s]+?)\s+to\s+([A-Za-z\s]+?)(?:\s+on|\s+\d): group 1 is s[a..b] and
\* group 2 is s[c..d]; the ends d of group 2 that start at c
Group2Ends(s, c) == { d \in c..NameRunEnd(s, c) : RouteTailAt(s, d + 1) }

\* the starts c of group 2 when group 1 ends at b
Group2Starts(s, b) == { c \in ToAt(s, b + 1) : Group2Ends(s, c) # {} }

\* the ends b of group 1 that starts at a
Group1Ends(s, a) == { b \in a..NameRunEnd(s, a) : Group2Starts(s, b) # {} }

\* the starts a of group 1 when the pattern is anchored at i
Group1Starts(s, i) ==
    IF LiteralAt(s, <<"f","r","o","m">>, i) /\ SkipSpaces(s, i + 4) > i + 4
    THEN { a \in (i + 5)..SkipSpaces(s, i + 4) : Group1Ends(s, a) # {} }
    ELSE {}

\* the match the backtracking search finds first when anchored at i: a greedy \s+
\* takes the longest run first, a lazy group the shortest text first
FromToPattern2At(s, i) ==
    LET a == SetMax(Group1Starts(s, i))
        b == SetMin(Group1Ends(s, a))
        c == SetMax(Group2Starts(s, b))
        d == SetMin(Group2Ends(s, c))
    IN  << SubSeq(s, a, b), SubSeq(s, c, d) >>

\* re.search(from_to_pattern2, user_query, re.IGNORECASE): the groups of the leftmost match
FromToPattern2(s) ==
    LET starts == { i \in 1..Len(s) : Group1Starts(s, i) # {} }
    IN  IF starts = {} THEN <<>> ELSE FromToPattern2At(s, SetMin(starts))

\* \d{4}-\d{2}-\d{2} anchored at i
DateAt(s, i) ==
    /\ i >= 1
    /\ i + 9 <= Len(s)
    /\ \A j \in {0, 1, 2, 3, 5, 6, 8, 9} : IsDigit(s[i + j])
    /\ s[i + 4] = "-"
    /\ s[i + 7] = "-"

\* re.findall(date_pattern, user_query): the non-overlapping matches, left to right
RECURSIVE FindAllDates(_, _)
FindAllDates(s, i) ==
    LET starts == { j \in i..Len(s) : DateAt(s, j) }
    IN  IF starts = {} THEN <<>>
        ELSE LET first == SetMin(starts)
             IN  <<SubSeq(s, first, first + 9)>> \o FindAllDates(s, first + 10)

\* a date search that falls back on a date of its own when the query has none
SearchDateOrGuess(s) ==
    LET dates == FindAllDates(s, 1)
    IN  IF dates = <<>> THEN <<"2","0","2","5","-","0","1","-","0","1">> ELSE dates[1]

\* re.search(date_pattern, user_query): group 1 of the leftmost match, or <<>> for None
SearchDate(s) == LET all == FindAllDates(s, 1) IN IF all = <<>> THEN <<>> ELSE all[1]

\* the route match of the flight section: pattern 1, then pattern 2 when it fails
RouteMatch(s) ==
    LET match == FromToPattern(s) IN IF match # <<>> THEN match ELSE FromToPattern2(s)

\* the city extraction of enhance_query_with_realtime_data
ExtractCities(user_query) ==
    LET query_lower == Lower(user_query)
        has_city_context == AnyKeywordIn(city_keywords, query_lower)
        words == Split(user_query)
        Candidate(word) == word # <<>> /\ IsUpper(word[1]) /\ Len(word) > 2
        selected == SelectSeq(words, Candidate)
        potential_cities == [i \in 1..Len(selected) |-> Strip(selected[i], {"?", ",", "!", "."})]
        NotSkipped(city) == city \notin Range(skip_words)
    IN  IF has_city_context THEN SelectSeq(potential_cities, NotSkipped) ELSE <<>>

(***************************************************************************)
(* Python values: a dict is a function from its keys; text that the model  *)
(* does not look inside is a string; a rendered text is a sequence of      *)
(* pieces, so that str.join and the f-string concatenations are computed.  *)
(***************************************************************************)
HasKey(d, k) == k \in DOMAIN d

\* dict.get(key, default)
Get(d, k, default) == IF k \in DOMAIN d THEN d[k] ELSE default

Min(a, b) == IF a <= b THEN a ELSE b

\* one piece of a rendered text
Piece(kind, topic, form, detail) ==
    [kind |-> kind, topic |-> topic, form |-> form, detail |-> detail]

\* the separator "\n\n"
BlankLine == << Piece("sep", "", "", "") >>

\* a text block about one topic
Block(topic, form, detail) == << Piece("block", topic, form, detail) >>

\* one retrieved document
Passage(i) == << Piece("doc", "", "", i) >>

(***************************************************************************)
(* TravelDataAPI: the gateway fetchers and format_for_rag.  A fetcher is   *)
(* given the outcome of its provider calls and yields the dict it returns, *)
(* the provider endpoints it has contacted and the exception that leaves   *)
(* it ("" when none does).                                                 *)
(***************************************************************************)
MaxOffers == 4

MaxDocs == 2

\* what the Amadeus flight search may answer: a list of n offers (none, or more than
\* the fetcher keeps), or an exception
FlightOutcomes ==
    [kind : {"data"}, n : {0, 1, MaxOffers}] \cup [kind : {"ResponseError", "KeyError"}, n : {0}]

\* what the two Amadeus hotel calls may answer
HotelOutcomes ==
    [step : {"by_city"}, kind : {"ResponseError", "empty"}, n : {0}]
        \cup [step : {"offers"}, kind : {"ResponseError", "KeyError"}, n : {0}]
        \cup [step : {"offers"}, kind : {"data"}, n : {0, MaxOffers}]

\* what the two Open-Meteo calls may answer; days is the length of the daily lists
WeatherOutcomes ==
    [step : {"geocode"}, kind : {"ConnectionError", "empty"}, days : {0}]
        \cup [step : {"forecast"}, kind : {"KeyError"}, days : {0}]
        \cup [step : {"forecast"}, kind : {"data"}, days : {0, 7}]

\* what the exchange-rate call may answer
CurrencyOutcomes == {"data", "ConnectionError", "KeyError"}

\* the provider call failed: it raised, answered an error or answered a payload
\* without the expected fields
ProviderFailed(kind) == kind \notin {"data", "empty"}

\* a client that is made as soon as one credential is set
ClientWithEitherCredential(env) == env.AMADEUS_API_KEY \/ env.AMADEUS_API_SECRET

\* TravelDataAPI.__init__: self.amadeus is set only when both credentials are
TravelDataAPI(env) == env.AMADEUS_API_KEY /\ env.AMADEUS_API_SECRET

\* str(e) of an exception raised by a provider call
StrOf(exception) == exception

\* a request sent to a provider
Request(endpoint, params) == [endpoint |-> endpoint, params |-> params]

\* the default of search_flights' parameter adults
adults == 1

\* response.data of the flight search: the offers, each named by its rank in the
\* order of the provider; none when the provider call raised
FlightOffers(outcome) == IF outcome.kind = "data" THEN [i \in 1..outcome.n |-> i] ELSE <<>>

\* a search_flights that asks the provider for the flights of the way back
SearchFlightsWayBack(amadeus, origin, destination, departure_date, outcome) ==
    IF ~amadeus
    THEN [dict |-> [error |-> "Amadeus API not configured"], requests |-> <<>>, raises |-> ""]
    ELSE [raises |-> "",
          requests |->
            << Request("amadeus.shopping.flight_offers_search",
                       [originLocationCode |-> destination, destinationLocationCode |-> origin,
                        departureDate |-> departure_date, adults |-> adults, max |-> 5]) >>,
          response |-> FlightOffers(outcome),
          dict |->
            CASE outcome.kind = "data" /\ outcome.n = 0 ->
                   [origin |-> origin, destination |-> destination,
                    departure_date |-> departure_date, flights |-> <<>>, count |-> 0,
                    message |-> "No flights found for this route/date"]
              [] outcome.kind = "data" /\ outcome.n > 0 ->
                   LET flights == SubSeq(FlightOffers(outcome), 1, Min(outcome.n, 3))
                   IN  [origin |-> origin, destination |-> destination,
                        departure_date |-> departure_date, flights |-> flights,
                        count |-> Len(flights)]
              [] outcome.kind = "ResponseError" ->
                   [error |-> "Amadeus API error: Status {status_code}"]
              [] OTHER -> [error |-> StrOf(outcome.kind)]]

\* a search_flights that keeps the last offers of the provider, the last one first
SearchFlightsLastOffers(amadeus, origin, destination, departure_date, outcome) ==
    IF ~amadeus
    THEN [dict |-> [error |-> "Amadeus API not configured"], requests |-> <<>>, raises |-> ""]
    ELSE [raises |-> "",
          requests |->
            << Request("amadeus.shopping.flight_offers_search",
                       [originLocationCode |-> origin, destinationLocationCode |-> destination,
                        departureDate |-> departure_date, adults |-> adults, max |-> 5]) >>,
          response |-> FlightOffers(outcome),
          dict |->
            CASE outcome.kind = "data" /\ outcome.n = 0 ->
                   [origin |-> origin, destination |-> destination,
                    departure_date |-> departure_date, flights |-> <<>>, count |-> 0,
                    message |-> "No flights found for this route/date"]
              [] outcome.kind = "data" /\ outcome.n > 0 ->
                   LET flights == [i \in 1..Min(outcome.n, 3) |-> outcome.n - i + 1]
                   IN  [origin |-> origin, destination |-> destination,
                        departure_date |-> departure_date, flights |-> flights,
                        count |-> Len(flights)]
              [] outcome.kind = "ResponseError" ->
                   [error |-> "Amadeus API error: Status {status_code}"]
              [] OTHER -> [error |-> StrOf(outcome.kind)]]

\* TravelDataAPI.search_flights
SearchFlights(amadeus, origin, destination, departure_date, outcome) ==
    IF ~amadeus
    THEN [dict |-> [error |-> "Amadeus API not configured"], requests |-> <<>>, raises |-> ""]
    ELSE [raises |-> "",
          requests |->
            << Request("amadeus.shopping.flight_offers_search",
                       [originLocationCode |-> origin, destinationLocationCode |-> destination,
                        departureDate |-> departure_date, adults |-> adults, max |-> 5]) >>,
          response |-> FlightOffers(outcome),
          dict |->
            CASE outcome.kind = "data" /\ outcome.n = 0 ->
                   [origin |-> origin, destination |-> destination,
                    departure_date |-> departure_date, flights |-> <<>>, count |-> 0,
                    message |-> "No flights found for this route/date"]
              [] outcome.kind = "data" /\ outcome.n > 0 ->
                   LET flights == SubSeq(FlightOffers(outcome), 1, Min(outcome.n, 3))
                   IN  [origin |-> origin, destination |-> destination,
                        departure_date |-> departure_date, flights |-> flights,
                        count |-> Len(flights)]
              [] outcome.kind = "ResponseError" ->
                   [error |-> "Amadeus API error: Status {status_code}"]
              [] OTHER -> [error |-> StrOf(outcome.kind)]]

\* TravelDataAPI.get_hotel_offers
GetHotelOffers(amadeus, city_code, check_in, check_out, outcome) ==
    IF ~amadeus
    THEN [dict |-> [error |-> "Amadeus API not configured"], requests |-> <<>>, raises |-> ""]
    ELSE [raises |-> "",
          requests |->
            LET by_city == Request("amadeus.reference_data.locations.hotels.by_city",
                                   [cityCode |-> city_code])
                offers == Request("amadeus.shopping.hotel_offers_search",
                                  [checkInDate |-> check_in, checkOutDate |-> check_out])
            IN  IF outcome.step = "by_city" THEN << by_city >> ELSE << by_city, offers >>,
          dict |->
            CASE outcome.kind = "empty" -> [error |-> "No hotels found"]
              [] outcome.kind = "data" ->
                   LET hotels == [i \in 1..Min(outcome.n, 3) |-> i]
                   IN  [city |-> city_code, check_in |-> check_in, check_out |-> check_out,
                        hotels |-> hotels, count |-> Len(hotels)]
              [] outcome.kind = "ResponseError" -> [error |-> "Amadeus API error: {error}"]
              [] OTHER -> [error |-> StrOf(outcome.kind)]]

\* TravelDataAPI.get_weather_data
GetWeatherData(city, outcome) ==
    [raises |-> "",
     requests |->
        LET geocode == Request("geocoding-api.open-meteo.com", [name |-> city, count |-> 1])
            forecast == Request("api.open-meteo.com", [timezone |-> "auto"])
        IN  IF outcome.step = "geocode" THEN << geocode >> ELSE << geocode, forecast >>,
     dict |->
        CASE outcome.kind = "empty" -> [error |-> "City {city} not found"]
          [] outcome.kind = "data" ->
               [city |-> city, max_temps |-> Min(outcome.days, 7)]
          [] OTHER -> [error |-> StrOf(outcome.kind)]]

\* a get_currency_rates without its try: the exception of the provider call leaves it
GetCurrencyRatesUncaught(base_currency, outcome) ==
    IF outcome = "data"
    THEN [raises |-> "",
          requests |-> << Request("api.exchangerate-api.com", [base |-> base_currency]) >>,
          dict |-> [base |-> base_currency, rates |-> "rates", timestamp |-> "date"]]
    ELSE [raises |-> outcome,
          requests |-> << Request("api.exchangerate-api.com", [base |-> base_currency]) >>,
          dict |-> <<>>]

\* TravelDataAPI.get_currency_rates
GetCurrencyRates(base_currency, outcome) ==
    [raises |-> "",
     requests |-> << Request("api.exchangerate-api.com", [base |-> base_currency]) >>,
     dict |->
        IF outcome = "data"
        THEN [base |-> base_currency, rates |-> "rates", timestamp |-> "date"]
        ELSE [error |-> StrOf(outcome)]]

\* TravelDataAPI.format_for_rag: the rendered block, or the exception it raises
FormatForRag(data, data_type) ==
    CASE data_type = "weather" ->
           IF HasKey(data, "error")
           THEN [raises |-> "", text |-> Block("WEATHER", "unavailable", data.error)]
           ELSE IF data.max_temps = 0
                THEN [raises |-> "IndexError", text |-> <<>>]
                ELSE [raises |-> "", text |-> Block("WEATHER", "data", "")]
      [] data_type = "currency" ->
           IF HasKey(data, "error")
           THEN [raises |-> "", text |-> Block("CURRENCY", "unavailable", data.error)]
           ELSE [raises |-> "", text |-> Block("CURRENCY", "data", "")]
      [] data_type = "flights" ->
           IF HasKey(data, "error")
           THEN [raises |-> "", text |-> Block("FLIGHT", "unavailable", data.error)]
           ELSE IF Get(data, "count", 0) = 0
                THEN [raises |-> "",
                      text |-> Block("FLIGHT", "none_found", Get(data, "message", "No flights found"))]
                ELSE [raises |-> "", text |-> Block("FLIGHT", "data", "")]
      [] data_type = "hotels" ->
           IF HasKey(data, "error")
           THEN [raises |-> "", text |-> Block("HOTEL", "unavailable", data.error)]
           ELSE IF data.count = 0
                THEN [raises |-> "", text |-> Block("HOTEL", "none_found", "No hotels found.")]
                ELSE [raises |-> "", text |-> Block("HOTEL", "data", "")]


(***************************************************************************)
(* The knowledge base: the text files of the knowledge_base directory, the *)
(* persisted ChromaDB collections and the scripts that fill them.          *)
(***************************************************************************)
\* a persisted collection: the path of the PersistentClient, as written, and the
\* name of the collection
Store(path, name) == [path |-> path, name |-> name]

\* a path relative to the working directory without its leading "./"; every
\* program is run from the same working directory
NormPath(path) ==
    IF Len(path) >= 2 /\ path[1] = "." /\ path[2] = "/" THEN SubSeq(path, 3, Len(path)) ELSE path

\* VectorStoreManager(): PersistentClient(path='data/vector_db') and
\* get_or_create_collection(name="travel_knowledge")
VectorStoreManager ==
    Store(<<"d","a","t","a","/","v","e","c","t","o","r","_","d","b">>, "travel_knowledge")

\* RAGEngine(): PersistentClient(path="./data/chroma_db") and the collection
\* "travel_docs", got when it exists and created when it does not
RAGEngineCollection ==
    Store(<<".","/","d","a","t","a","/","c","h","r","o","m","a","_","d","b">>, "travel_docs")

\* the collection on disk a Store stands for
Persisted(store) == Store(NormPath(store.path), store.name)

Stores == { Persisted(VectorStoreManager), Persisted(RAGEngineCollection) }

\* the attributes RAGEngine.__init__ sets on the engine
RAGEngineAttributes ==
    { "api_key", "llm_client", "model_name", "chroma_client", "collection", "system_prompt" }

\* how many files and how many chunks of a file are followed
MaxFiles == 2
MaxChunks == 2

\* the directories of the knowledge base, relative to it, and the names of text files
Directories == { <<>>, << <<"d","e","s","t","i","n","a","t","i","o","n","s">> >>, << <<"t","i","p","s">> >>, << <<"d","e","s","t","i","n","a","t","i","o","n","s">>, <<"e","u","r","o","p","e">> >> }
FileNames == { <<"p","a","r","i","s",".","t","x","t">>, <<"v","i","s","a",".","t","x","t">> }

\* a text file: where it is, its name and how many chunks chunk_text makes of its
\* content
Files == [dir : Directories, name : FileNames, chunks : 0..MaxChunks]

\* directory.rglob('*.txt'): the files of the tree in the order they are found,
\* no two at the same path
Trees ==
    UNION { { tree \in [1..n -> Files] :
                \A i, j \in 1..n : i # j => << tree[i].dir, tree[i].name >> # << tree[j].dir, tree[j].name >> } :
            n \in 0..MaxFiles }

\* load_documents_from_directory: a document for each file, with its source path,
\* its file name and its category, the first directory of its relative path
load_documents_from_directory(tree) ==
    [ i \in 1..Len(tree) |->
        [ content |-> tree[i].chunks,
          source |-> Append(tree[i].dir, tree[i].name),
          filename |-> tree[i].name,
          category |-> IF tree[i].dir # <<>> THEN tree[i].dir[1] ELSE <<"g","e","n","e","r","a","l">> ] ]

\* the chunks of one document, numbered from 0
ChunksOf(doc) ==
    [ k \in 1..doc.content |->
        [ text |-> << doc.source, k - 1 >>, source |-> doc.source, filename |-> doc.filename,
          category |-> doc.category, chunk_id |-> k - 1, total_chunks |-> doc.content ] ]

\* process_documents: the chunks of every document, in order
RECURSIVE process_documents(_)
process_documents(documents) ==
    IF documents = <<>> THEN <<>>
    ELSE ChunksOf(documents[1]) \o process_documents(Tail(documents))

\* f"{chunk['filename']}_{chunk['chunk_id']}"
ChunkId(chunk) == chunk.filename \o << "_" >> \o << DigitChars[chunk.chunk_id + 1] >>

\* the entries of a populate call: the id and the document of every chunk
Entries(chunks) == [ i \in 1..Len(chunks) |-> [id |-> ChunkId(chunks[i]), document |-> chunks[i].text] ]

\* how many documents populate_travel_database adds, and f"travel_doc_{i}"
travel_docs == 20
TravelDocId(i) ==
    << "t","r","a","v","e","l","_","d","o","c","_" >>
        \o (IF i >= 10 THEN << DigitChars[(i \div 10) + 1] >> ELSE <<>>) \o << DigitChars[(i % 10) + 1] >>
\* how many of the travel documents are followed
MaxTravelDocs == 4
TravelEntries == [ i \in 1..Min(travel_docs, MaxTravelDocs) |-> [id |-> TravelDocId(i - 1), document |-> << << <<"t","r","a","v","e","l","_","d","o","c","s">> >>, i - 1 >>] ]

\* collection.add(documents, ids) of ChromaDB: ids repeated in the call are
\* refused with DuplicateIDError and nothing is added; an entry whose id is
\* already in the collection is left out
HasDuplicates(entries) ==
    \E i, j \in 1..Len(entries) : i # j /\ entries[i].id = entries[j].id

CollectionAdd(stored, entries) ==
    IF HasDuplicates(entries) THEN stored
    ELSE stored \cup { entries[i] : i \in { k \in 1..Len(entries) :
                                              \A e \in stored : e.id # entries[k].id } }

\* the batches a populate call adds its entries in
batch_size == 50
Batches(entries) ==
    [ b \in 1..((Len(entries) + batch_size - 1) \div batch_size) |->
        SubSeq(entries, (b - 1) * batch_size + 1, Min(Len(entries), b * batch_size)) ]

\* the batches added one after the other until one is refused
RECURSIVE AddBatches(_, _)
AddBatches(stored, batches) ==
    IF batches = <<>> THEN [stored |-> stored, raises |-> ""]
    ELSE IF HasDuplicates(batches[1]) THEN [stored |-> stored, raises |-> "DuplicateIDError"]
    ELSE AddBatches(CollectionAdd(stored, batches[1]), Tail(batches))
(***************************************************************************)
(* The chat page and RAGEngine.generate_response, one request at a time    *)
(***************************************************************************)
VARIABLES
    knowledge_base,     \* the text files of the knowledge_base directory
    collections,        \* the entries of each persisted ChromaDB collection
    ingestion,          \* the last run of the populate script: its ids and its outcome
    retrieval,          \* the last query of the engine's documents: its result
    environ,            \* os.environ: whether each Amadeus credential is set
    messages,           \* st.session_state.messages: the conversation of the chat page
    conversation_history, \* the conversation_history generate_response was called with
    pc,                 \* where the request is in generate_response
    user_query,         \* the query of the request
    amadeus,            \* travel_api.amadeus is not None
    cities,             \* the extracted city tokens
    additional_context, \* the real-time blocks collected so far
    enhance,            \* enhance_query_with_realtime_data: "", "running", "returned", "raised"
    realtime_context,   \* what enhance_query_with_realtime_data returned
    documents,          \* results['documents'][0] of the vector store query
    context,            \* the context given to _build_prompt
    prompt,             \* the prompt sent to the language model
    result,             \* what generate_response returns
    gateway_calls,      \* the fetcher calls issued, in order
    provider_requests,  \* the provider endpoints contacted, in order
    store_queries,      \* the outcomes of the vector store queries, in order
    llm_calls           \* the outcomes of the language model calls, in order

vars ==
    << knowledge_base, collections, ingestion, retrieval, environ, messages, conversation_history, pc, user_query, amadeus, cities, additional_context, enhance,
       realtime_context, documents, context, prompt, result, gateway_calls,
       provider_requests, store_queries, llm_calls >>

knowledge_vars == << knowledge_base, collections, ingestion, retrieval >>

request_vars ==
    << conversation_history, user_query, amadeus, cities, additional_context, enhance, realtime_context,
       documents, context, prompt, result, gateway_calls, provider_requests,
       store_queries, llm_calls >>

NoResult == [error |-> FALSE, text |-> ""]

\* the except clause of generate_response: f"Error generating response: {str(e)}"
ErrorResult(e) == [error |-> TRUE, text |-> StrOf(e)]

NoPrompt == [context |-> <<>>, conversation_history |-> <<>>, user_query |-> <<>>, text |-> <<>>]

Idle ==
    /\ pc = "idle"
    /\ conversation_history = <<>>
    /\ user_query = <<>>
    /\ amadeus = FALSE
    /\ cities = <<>>
    /\ additional_context = <<>>
    /\ enhance = ""
    /\ realtime_context = <<>>
    /\ documents = <<>>
    /\ context = <<>>
    /\ prompt = NoPrompt
    /\ result = NoResult
    /\ gateway_calls = <<>>
    /\ provider_requests = <<>>
    /\ store_queries = <<>>
    /\ llm_calls = <<>>

\* no populate script has run and the engine's documents have not been queried
NoIngestion == [ran |-> FALSE, ids |-> <<>>, added |-> {}, raises |-> ""]
NoRetrieval == [by |-> "", documents |-> {}, raises |-> ""]
NothingStored ==
    /\ collections = [ store \in Stores |-> {} ]
    /\ ingestion = NoIngestion
    /\ retrieval = NoRetrieval

Init ==
    /\ environ \in [AMADEUS_API_KEY : BOOLEAN, AMADEUS_API_SECRET : BOOLEAN]
    /\ messages = <<>>
    /\ Idle
    /\ knowledge_base = <<>>
    /\ NothingStored

\* a fetcher call as it is logged
Call(fn, args, kind, fetched) ==
    [fn |-> fn, args |-> args, failed |-> fetched.requests # <<>> /\ ProviderFailed(kind),
     returned |-> IF fetched.raises # "" THEN "raised"
                  ELSE IF HasKey(fetched.dict, "error") THEN "error" ELSE "data",
     error |-> IF fetched.raises # "" THEN "" ELSE Get(fetched.dict, "error", ""),
     count |-> IF fetched.raises # "" THEN 0 ELSE Get(fetched.dict, "count", 0),
     flights |-> IF fetched.raises # "" THEN <<>> ELSE Get(fetched.dict, "flights", <<>>),
     message |-> IF fetched.raises # "" THEN "" ELSE Get(fetched.dict, "message", ""),
     response |-> Get(fetched, "response", <<>>)]

\* an exception inside enhance_query_with_realtime_data leaves it and is caught by
\* the except clause of generate_response
RaiseInEnhance(e) ==
    /\ enhance' = "raised"
    /\ result' = ErrorResult(e)
    /\ pc' = "done"
    /\ UNCHANGED << additional_context, realtime_context >>

\* a message of the conversation
Message(role, content) == [role |-> role, content |-> content]

\* the roles of the messages of the conversation
user == <<"u","s","e","r">>
assistant == <<"a","s","s","i","s","t","a","n","t">>

\* str.title(): a letter after a letter is lowered, any other letter is raised
Title(text) ==
    [ i \in 1..Len(text) |->
        IF i > 1 /\ LowerChar(text[i - 1]) \in Range(LowerChars)
        THEN LowerChar(text[i])
        ELSE UpperChar(text[i]) ]

\* get_conversation_history_text: the last 5 messages, each as f"{role}: {content}",
\* returned as a list
get_conversation_history_text(msgs) ==
    LET last == IF Len(msgs) > 5 THEN SubSeq(msgs, Len(msgs) - 4, Len(msgs)) ELSE msgs
    IN  [ i \in 1..Len(last) |-> Title(last[i].role) \o << ":", " " >> \o last[i].content ]

\* repr() of a str: in double quotes when it has a single quote and no double quote
Repr(text) ==
    LET quote == IF (\E i \in 1..Len(text) : text[i] = "'")
                    /\ ~ (\E i \in 1..Len(text) : text[i] = "\"")
                 THEN "\"" ELSE "'"
    IN  << quote >> \o text \o << quote >>

\* str() of a list of str, as an f-string renders it: [repr, repr, ...]
Str(list) ==
    << "[" >> \o Join(<< ", " >>, [ i \in 1..Len(list) |-> Repr(list[i]) ]) \o << "]" >>

\* the chat page has called generate_response and waits for the response
AwaitingResponse == messages # <<>> /\ messages[Len(messages)].role = user

\* generate_response(user_query, conversation_history) is called;
\* enhance_query_with_realtime_data starts: TravelDataAPI() and the city extraction
GenerateResponse(q, history) ==
    /\ pc = "idle"
    /\ pc' = "flight"
    /\ user_query' = q
    /\ conversation_history' = history
    /\ enhance' = "running"
    /\ amadeus' = TravelDataAPI(environ)
    /\ cities' = ExtractCities(q)
    /\ UNCHANGED << knowledge_vars, environ, additional_context, realtime_context, documents, context,
                    prompt, result, gateway_calls, provider_requests, store_queries,
                    llm_calls >>

\* generate_response is called with a query and the default conversation_history,
\* the empty str, which is rendered like the empty list: not at all
Submit(q) ==
    /\ GenerateResponse(q, <<>>)
    /\ UNCHANGED messages

\* the form of the chat page is submitted with a text: the message is appended to
\* the conversation, then the history is taken and generate_response is called
SendMessage(user_input) ==
    /\ user_input # <<>>
    /\ messages' = Append(messages, Message(user, user_input))
    /\ GenerateResponse(user_input, get_conversation_history_text(messages'))

\* the texts of the sample query buttons of the chat page
sample_queries ==
    << <<"P","l","a","n"," ","a"," ","5","-","d","a","y"," ","t","r","i","p"," ","t","o"," ","P","a","r","i","s">>,
       <<"W","h","a","t","'","s"," ","t","h","e"," ","b","u","d","g","e","t"," ","f","o","r"," ","T","o","k","y","o","?">>,
       <<"W","h","a","t"," ","s","h","o","u","l","d"," ","I"," ","p","a","c","k"," ","f","o","r"," ","B","a","l","i","?">>,
       <<"D","o"," ","I"," ","n","e","e","d"," ","a"," ","v","i","s","a"," ","f","o","r"," ","J","a","p","a","n","?">>,
       <<"B","e","s","t"," ","t","i","m","e"," ","t","o"," ","v","i","s","i","t"," ","P","a","r","i","s">> >>

\* a sample query button is clicked: its text is appended to the conversation, then
\* the history is taken and generate_response is called
ClickSample(query) ==
    /\ messages' = Append(messages, Message(user, query))
    /\ GenerateResponse(query, get_conversation_history_text(messages'))
\* additional_context.append(travel_api.format_for_rag(data, data_type)), then on to
\* the next section; format_for_rag may raise
AppendRendered(data, data_type, next) ==
    LET rendered == FormatForRag(data, data_type)
    IN  IF rendered.raises # ""
        THEN RaiseInEnhance(rendered.raises)
        ELSE /\ additional_context' = Append(additional_context, rendered.text)
             /\ pc' = next
             /\ UNCHANGED << enhance, realtime_context, result >>

\* a section that adds nothing to additional_context
AppendNothing(next) ==
    /\ pc' = next
    /\ UNCHANGED << additional_context, enhance, realtime_context, result >>

\* the call of a fetcher and the provider requests it made are logged
Fetch(call, fetched) ==
    /\ gateway_calls' = Append(gateway_calls, call)
    /\ provider_requests' = provider_requests \o fetched.requests

Whitespace == {" ", "\t", "\n"}

\* the FLIGHT SEARCH section reaches travel_api.search_flights
FlightRequested ==
    /\ AnyKeywordIn(flight_keywords, Lower(user_query))
    /\ RouteMatch(user_query) # <<>>
    /\ SearchDate(user_query) # <<>>

\* the origin and the destination of the FLIGHT SEARCH section: the two groups of the
\* route match, stripped and converted by _extract_location_code; <<>> without a match
FlightRoute(query) ==
    LET match == RouteMatch(query)
    IN  IF match = <<>>
        THEN <<>>
        ELSE << ExtractLocationCode(Strip(match[1], Whitespace)),
                ExtractLocationCode(Strip(match[2], Whitespace)) >>

\* the FLIGHT SEARCH section when it calls search_flights
FlightSearch(outcome) ==
    /\ pc = "flight"
    /\ FlightRequested
    /\ \E route \in { FlightRoute(user_query) } :
        LET origin == route[1]
            destination == route[2]
            departure_date == SearchDate(user_query)
            fetched == SearchFlights(amadeus, origin, destination, departure_date, outcome)
            flight_data == fetched.dict
            error_msg == IF Get(flight_data, "error", "") # ""
                         THEN flight_data.error
                         ELSE Get(flight_data, "message", "No flights found")
        IN  /\ Fetch(Call("search_flights", <<origin, destination, departure_date>>,
                          outcome.kind, fetched), fetched)
            /\ IF fetched.raises # ""
               THEN RaiseInEnhance(fetched.raises)
               ELSE IF ~HasKey(flight_data, "error") /\ Get(flight_data, "count", 0) > 0
                    THEN AppendRendered(flight_data, "flights", "hotel")
                    ELSE /\ additional_context' =
                               Append(additional_context, Block("FLIGHT", "attempted", error_msg))
                         /\ pc' = "hotel"
                         /\ UNCHANGED << enhance, realtime_context, result >>
    /\ UNCHANGED << enhance, realtime_context, result >>
    /\ UNCHANGED << knowledge_vars, environ, messages, conversation_history, user_query, amadeus, cities,
                    documents, context, prompt,
                    store_queries, llm_calls >>

\* the FLIGHT SEARCH section when it calls nothing: no flight keyword, no route or no date
FlightSkip ==
    /\ pc = "flight"
    /\ ~FlightRequested
    /\ AppendNothing("hotel")
    /\ UNCHANGED << knowledge_vars, environ, messages, conversation_history, user_query, amadeus, cities,
                    documents, context, prompt,
                    gateway_calls, provider_requests, store_queries, llm_calls >>

\* the HOTEL SEARCH section reaches travel_api.get_hotel_offers
HotelRequested ==
    /\ AnyKeywordIn(hotel_keywords, Lower(user_query))
    /\ Len(cities) > 0
    /\ Len(FindAllDates(user_query, 1)) >= 2

HotelSearchDatesSwapped(outcome) ==
    /\ pc = "hotel"
    /\ HotelRequested
    /\ LET city == cities[1]
           city_code == Upper(Prefix(city, 3))
           dates == FindAllDates(user_query, 1)
           check_in == dates[2]
           check_out == dates[1]
           fetched == GetHotelOffers(amadeus, city_code, check_in, check_out, outcome)
           hotel_data == fetched.dict
       IN  /\ Fetch(Call("get_hotel_offers", <<city_code, check_in, check_out>>,
                         outcome.kind, fetched), fetched)
           /\ IF fetched.raises # ""
              THEN RaiseInEnhance(fetched.raises)
              ELSE IF ~HasKey(hotel_data, "error")
                   THEN AppendRendered(hotel_data, "hotels", "weather")
                   ELSE AppendNothing("weather")
    /\ UNCHANGED << knowledge_vars, environ, messages, conversation_history, user_query, amadeus, cities,
                    documents, context, prompt,
                    store_queries, llm_calls >>

\* the HOTEL SEARCH section when it calls get_hotel_offers
HotelSearch(outcome) ==
    /\ pc = "hotel"
    /\ HotelRequested
    /\ LET city == cities[1]
           city_code == Upper(Prefix(city, 3))
           dates == FindAllDates(user_query, 1)
           check_in == dates[1]
           check_out == dates[2]
           fetched == GetHotelOffers(amadeus, city_code, check_in, check_out, outcome)
           hotel_data == fetched.dict
       IN  /\ Fetch(Call("get_hotel_offers", <<city_code, check_in, check_out>>,
                         outcome.kind, fetched), fetched)
           /\ IF fetched.raises # ""
              THEN RaiseInEnhance(fetched.raises)
              ELSE IF ~HasKey(hotel_data, "error")
                   THEN AppendRendered(hotel_data, "hotels", "weather")
                   ELSE AppendNothing("weather")
    /\ UNCHANGED << knowledge_vars, environ, messages, conversation_history, user_query, amadeus, cities,
                    documents, context, prompt,
                    store_queries, llm_calls >>

\* the HOTEL SEARCH section when it calls nothing
HotelSkip ==
    /\ pc = "hotel"
    /\ ~HotelRequested
    /\ AppendNothing("weather")
    /\ UNCHANGED << knowledge_vars, environ, messages, conversation_history, user_query, amadeus, cities,
                    documents, context, prompt,
                    gateway_calls, provider_requests, store_queries, llm_calls >>

\* a WEATHER DATA section that asks for the weather of any city the query names
WeatherForAnyCity == Len(cities) > 0

\* the WEATHER DATA section reaches travel_api.get_weather_data
WeatherRequested ==
    /\ Len(cities) > 0
    /\ AnyKeywordIn(weather_keywords, Lower(user_query))

WeatherDataLastCity(outcome) ==
    /\ pc = "weather"
    /\ WeatherRequested
    /\ LET city == cities[Len(cities)]
           fetched == GetWeatherData(city, outcome)
           weather_data == fetched.dict
       IN  /\ Fetch(Call("get_weather_data", <<city>>, outcome.kind, fetched), fetched)
           /\ IF fetched.raises # ""
              THEN RaiseInEnhance(fetched.raises)
              ELSE IF ~HasKey(weather_data, "error")
                   THEN AppendRendered(weather_data, "weather", "currency")
                   ELSE AppendNothing("currency")
    /\ UNCHANGED << knowledge_vars, environ, messages, conversation_history, user_query, amadeus, cities,
                    documents, context, prompt,
                    store_queries, llm_calls >>

\* the WEATHER DATA section when it calls get_weather_data
WeatherData(outcome) ==
    /\ pc = "weather"
    /\ WeatherRequested
    /\ LET city == cities[1]
           fetched == GetWeatherData(city, outcome)
           weather_data == fetched.dict
       IN  /\ Fetch(Call("get_weather_data", <<city>>, outcome.kind, fetched), fetched)
           /\ IF fetched.raises # ""
              THEN RaiseInEnhance(fetched.raises)
              ELSE IF ~HasKey(weather_data, "error")
                   THEN AppendRendered(weather_data, "weather", "currency")
                   ELSE AppendNothing("currency")
    /\ UNCHANGED << knowledge_vars, environ, messages, conversation_history, user_query, amadeus, cities,
                    documents, context, prompt,
                    store_queries, llm_calls >>

\* the WEATHER DATA section when it calls nothing
WeatherSkip ==
    /\ pc = "weather"
    /\ ~WeatherRequested
    /\ AppendNothing("currency")
    /\ UNCHANGED << knowledge_vars, environ, messages, conversation_history, user_query, amadeus, cities,
                    documents, context, prompt,
                    gateway_calls, provider_requests, store_queries, llm_calls >>

\* the CURRENCY DATA section reaches travel_api.get_currency_rates
CurrencyRequested == AnyKeywordIn(currency_keywords, Lower(user_query))

\* the CURRENCY DATA section when it calls get_currency_rates
CurrencyData(outcome) ==
    /\ pc = "currency"
    /\ CurrencyRequested
    /\ LET fetched == GetCurrencyRates(<<"U","S","D">>, outcome)
           currency_data == fetched.dict
       IN  /\ Fetch(Call("get_currency_rates", << <<"U","S","D">> >>, outcome, fetched), fetched)
           /\ IF fetched.raises # ""
              THEN RaiseInEnhance(fetched.raises)
              ELSE IF ~HasKey(currency_data, "error")
                   THEN AppendRendered(currency_data, "currency", "join")
                   ELSE AppendNothing("join")
    /\ UNCHANGED << knowledge_vars, environ, messages, conversation_history, user_query, amadeus, cities,
                    documents, context, prompt,
                    store_queries, llm_calls >>

\* the CURRENCY DATA section when it calls nothing
CurrencySkip ==
    /\ pc = "currency"
    /\ ~CurrencyRequested
    /\ AppendNothing("join")
    /\ UNCHANGED << knowledge_vars, environ, messages, conversation_history, user_query, amadeus, cities,
                    documents, context, prompt,
                    gateway_calls, provider_requests, store_queries, llm_calls >>

\* an enrichment after which the model is called at once, before the store is queried
EnhanceReturnThenModel ==
    /\ pc = "join"
    /\ realtime_context' = Join(BlankLine, additional_context)
    /\ enhance' = "returned"
    /\ pc' = "llm"
    /\ UNCHANGED << knowledge_vars, environ, messages, conversation_history, user_query, amadeus, cities, additional_context, documents,
                    context, prompt, result, gateway_calls, provider_requests,
                    store_queries, llm_calls >>

\* result = '\n\n'.join(additional_context); return result
EnhanceReturn ==
    /\ pc = "join"
    /\ realtime_context' = Join(BlankLine, additional_context)
    /\ enhance' = "returned"
    /\ pc' = "store"
    /\ UNCHANGED << knowledge_vars, environ, messages, conversation_history, user_query, amadeus, cities, additional_context, documents,
                    context, prompt, result, gateway_calls, provider_requests,
                    store_queries, llm_calls >>

\* the number of documents collection.query is asked for
n_results == 3

\* what the vector store may answer: n documents (none, or MaxDocs of them), or an
\* exception
StoreOutcomes == [kind : {"data"}, n : {0, MaxDocs}] \cup [kind : {"Exception"}, n : {0}]

\* collection.query(query_texts=[user_query], n_results=3): results['documents'][0]
CollectionQuery(outcome) == [i \in 1..Min(outcome.n, n_results) |-> Passage(i)]

\* a context that puts the documents before the real-time context
BuildContextDocumentsFirst(realtime, docs) ==
    LET joined == Join(BlankLine, docs)
    IN  IF realtime # <<>> THEN joined \o BlankLine \o realtime ELSE joined

\* the context of generate_response: the documents joined by blank lines, after the
\* real-time context when there is one
BuildContext(realtime, docs) ==
    LET joined == Join(BlankLine, docs)
    IN  IF realtime # <<>> THEN realtime \o BlankLine \o joined ELSE joined

\* a part of the prompt text: its heading and what is rendered under it
Section(name, heading, body) == [section |-> name, heading |-> heading, body |-> body]

BuildPromptHistoryFirst(query, ctx, history) ==
    [context |-> ctx, conversation_history |-> history, user_query |-> query,
     text |-> ( IF history # <<>>
                THEN << Section("history", "Previous conversation:", Str(history)) >>
                ELSE <<>> )
              \o << Section("context", "Context from travel knowledge base:", ctx),
                    Section("question", "User question: ", query),
                    Section("request", "Please provide a helpful, detailed response", <<>>) >>]

\* RAGEngine._build_prompt: the context, the conversation when there is one, the
\* question and the closing request, one after the other in the text
BuildPrompt(query, ctx, history) ==
    [context |-> ctx, conversation_history |-> history, user_query |-> query,
     text |-> << Section("context", "Context from travel knowledge base:", ctx) >>
              \o ( IF history # <<>>
                   THEN << Section("history", "Previous conversation:", Str(history)) >>
                   ELSE <<>> )
              \o << Section("question", "User question: ", query),
                    Section("request", "Please provide a helpful, detailed response", <<>>) >>]

\* self.system_prompt: the policy of the assistant
system_prompt == "You are an expert travel advisor AI assistant"

\* the messages of the chat completion call: the system prompt, then the prompt
ChatMessages(p) ==
    << [role |-> "system", content |-> system_prompt],
       [role |-> "user", content |-> p.text] >>

\* the vector store query of generate_response, then the context and the prompt
QueryStore(outcome) ==
    /\ pc = "store"
    /\ store_queries' = Append(store_queries, outcome.kind)
    /\ IF outcome.kind = "data"
       THEN /\ documents' = CollectionQuery(outcome)
            /\ context' = BuildContext(realtime_context, documents')
            /\ prompt' = BuildPrompt(user_query, context', conversation_history)
            /\ pc' = "llm"
            /\ UNCHANGED result
       ELSE /\ result' = ErrorResult(outcome.kind)
            /\ pc' = "done"
            /\ UNCHANGED << documents, context, prompt >>
    /\ UNCHANGED << knowledge_vars, environ, messages, conversation_history, user_query, amadeus, cities, additional_context, enhance,
                    realtime_context, gateway_calls, provider_requests, llm_calls >>

\* what the chat completion call may answer: a completion, or an exception of the
\* transport or of the provider
LLMOutcomes == {"completion", "ConnectionError", "HfHubHTTPError"}

\* what generate_response returns after the chat completion call: the text of the
\* completion, or the except clause's text for the exception
Completion(outcome) ==
    IF outcome = "completion"
    THEN [error |-> FALSE, text |-> "completion"]
    ELSE ErrorResult(outcome)

\* llm_client.chat.completions.create(...) and the return of generate_response
CallLLM(outcome) ==
    /\ pc = "llm"
    /\ llm_calls' = Append(llm_calls, outcome)
    /\ result' = Completion(outcome)
    /\ pc' = "done"
    /\ UNCHANGED << knowledge_vars, environ, messages, conversation_history, user_query, amadeus, cities, additional_context, enhance,
                    realtime_context, documents, context, prompt, gateway_calls,
                    provider_requests, store_queries >>

RequestOverCallsKept ==
    /\ pc = "done"
    /\ pc' = "idle"
    /\ conversation_history' = <<>>
    /\ user_query' = <<>>
    /\ amadeus' = FALSE
    /\ cities' = <<>>
    /\ additional_context' = <<>>
    /\ enhance' = ""
    /\ realtime_context' = <<>>
    /\ documents' = <<>>
    /\ context' = <<>>
    /\ prompt' = NoPrompt
    /\ result' = NoResult
    /\ store_queries' = <<>>
    /\ llm_calls' = <<>>
    /\ UNCHANGED << knowledge_vars, environ, gateway_calls, provider_requests >>

\* the request is over: nothing of it is kept in the engine
RequestOver ==
    /\ pc = "done"
    /\ pc' = "idle"
    /\ conversation_history' = <<>>
    /\ user_query' = <<>>
    /\ amadeus' = FALSE
    /\ cities' = <<>>
    /\ additional_context' = <<>>
    /\ enhance' = ""
    /\ realtime_context' = <<>>
    /\ documents' = <<>>
    /\ context' = <<>>
    /\ prompt' = NoPrompt
    /\ result' = NoResult
    /\ gateway_calls' = <<>>
    /\ provider_requests' = <<>>
    /\ store_queries' = <<>>
    /\ llm_calls' = <<>>
    /\ UNCHANGED << knowledge_vars, environ >>

\* generate_response returns to a caller that is not the chat page
Return ==
    /\ ~ AwaitingResponse
    /\ RequestOver
    /\ UNCHANGED messages

RespondRepliesOnly ==
    /\ AwaitingResponse
    /\ RequestOver
    /\ messages' = IF result.error THEN messages
                   ELSE Append(messages, Message(assistant, << result.text >>))

\* the chat page appends the response to the conversation
Respond ==
    /\ AwaitingResponse
    /\ RequestOver
    /\ messages' = Append(messages, Message(assistant, << result.text >>))

\* the Clear Conversation button
ClearConversation ==
    /\ pc = "idle"
    /\ messages # <<>>
    /\ messages' = <<>>
    /\ UNCHANGED << knowledge_vars, environ, pc, request_vars >>

\* the steps of a request after generate_response has been called
Steps ==
    \/ \E o \in FlightOutcomes : FlightSearch(o)
    \/ FlightSkip
    \/ \E o \in HotelOutcomes : HotelSearch(o)
    \/ HotelSkip
    \/ \E o \in WeatherOutcomes : WeatherData(o)
    \/ WeatherSkip
    \/ \E o \in CurrencyOutcomes : CurrencyData(o)
    \/ CurrencySkip
    \/ EnhanceReturn
    \/ \E o \in StoreOutcomes : QueryStore(o)
    \/ \E o \in LLMOutcomes : CallLLM(o)

\* generate_response called on its own, in a process that keeps no conversation
Next ==
    \/ \E q \in Queries : Submit(q)
    \/ Steps
    \/ Return

Spec == Init /\ [][Next]_vars

\* how long a conversation of the chat page is followed
MaxMessages == 8

\* the texts sent in the conversations that are followed
SessionQueries == { Phrases[1] }

\* the sample query buttons that are clicked: "Do I need a visa for Japan?"
SampleClicks == { 4 }

\* the queries generate_response is called with on its own
DirectQueries == SessionQueries \cup { QueryText(<< 1, 3 >>) }

\* the chat page: messages are sent one after the other and the conversation may be
\* cleared; generate_response may also be called without a conversation
SessionNext ==
    \/ \E q \in SessionQueries : Len(messages) + 2 <= MaxMessages /\ SendMessage(q)
    \/ \E i \in SampleClicks : Len(messages) + 2 <= MaxMessages /\ ClickSample(sample_queries[i])
    \/ \E q \in DirectQueries : messages = <<>> /\ Submit(q)
    \/ Steps
    \/ Return
    \/ Respond
    \/ ClearConversation

SessionSpec == Init /\ [][SessionNext]_vars


(***************************************************************************)
(* The scripts that fill the collections and the engine's queries of its   *)
(* documents.                                                              *)
(***************************************************************************)
\* scripts/populate_vector_db_v2.py main: the documents of the knowledge base are
\* loaded and chunked, and the chunks are added through VectorStoreManager under
\* the ids made for them; nothing is added when there is no document or no chunk
Populate ==
    \E chunks \in { process_documents(load_documents_from_directory(knowledge_base)) } :
    \E store \in { Persisted(VectorStoreManager) } :
    \E done \in { AddBatches(collections[store], Batches(Entries(chunks))) } :
        /\ collections' = [collections EXCEPT ![store] = done.stored]
        /\ ingestion' = [ran |-> TRUE,
                         ids |-> [ i \in 1..Len(chunks) |-> ChunkId(chunks[i]) ],
                         added |-> { e.document : e \in done.stored \ collections[store] },
                         raises |-> done.raises]
        /\ UNCHANGED << knowledge_base, retrieval, environ, messages, pc, request_vars >>

\* src/populate_vector_db.py populate_travel_database: the travel documents are
\* added to the collection of a RAGEngine
PopulateTravelDatabase ==
    \E store \in { Persisted(RAGEngineCollection) } :
        /\ collections' = [collections EXCEPT ![store] = CollectionAdd(collections[store], TravelEntries)]
        /\ UNCHANGED << knowledge_base, ingestion, retrieval, environ, messages, pc, request_vars >>

\* collection.query(query_texts=[query], n_results=n): the n nearest documents of
\* the collection, any n of them, all of them when there are fewer
Nearest(stored, n) ==
    { found \in SUBSET { e.document : e \in stored } : Cardinality(found) = Min(n, Cardinality(stored)) }

\* generate_response queries the engine's collection for the documents of the
\* context
RetrieveDocuments ==
    \E found \in Nearest(collections[Persisted(RAGEngineCollection)], n_results) :
        /\ retrieval' = [by |-> "generate_response", documents |-> found, raises |-> ""]
        /\ UNCHANGED << knowledge_base, collections, ingestion, environ, messages, pc, request_vars >>

\* the top_k of retrieve_context that are followed
TopK == { 1, 5 }

\* retrieve_context(query, top_k): self.vector_store.query(query, n_results=top_k)
\* and the documents of its result; reading an attribute the engine does not have
\* raises AttributeError
RetrieveContext(top_k) ==
    /\ IF "vector_store" \in RAGEngineAttributes
       THEN \E found \in Nearest(collections[Persisted(VectorStoreManager)], top_k) :
                retrieval' = [by |-> "retrieve_context", documents |-> found, raises |-> ""]
       ELSE retrieval' = [by |-> "retrieve_context", documents |-> {}, raises |-> "AttributeError"]
    /\ UNCHANGED << knowledge_base, collections, ingestion, environ, messages, pc, request_vars >>

\* the knowledge base is filled and queried while no request is running
StoreInit ==
    /\ environ = [AMADEUS_API_KEY |-> FALSE, AMADEUS_API_SECRET |-> FALSE]
    /\ messages = <<>>
    /\ Idle
    /\ knowledge_base \in Trees
    /\ NothingStored

StoreNext ==
    \/ Populate
    \/ PopulateTravelDatabase
    \/ RetrieveDocuments
    \/ \E top_k \in TopK : RetrieveContext(top_k)

StoreSpec == StoreInit /\ [][StoreNext]_vars

(***************************************************************************)
(* What the properties below read off a state.                             *)
(***************************************************************************)
\* the topic a fetcher serves
TopicOf(fn) ==
    CASE fn = "search_flights" -> "FLIGHT"
      [] fn = "get_hotel_offers" -> "HOTEL"
      [] fn = "get_weather_data" -> "WEATHER"
      [] fn = "get_currency_rates" -> "CURRENCY"

\* the blocks and documents of a text, without the separators
Content(text) == SelectSeq(text, LAMBDA p : p.kind # "sep")

\* the blocks of a text
Blocks(text) == SelectSeq(text, LAMBDA p : p.kind = "block")

\* the text has a block about the topic
HasBlock(text, topic) == \E i \in 1..Len(text) : text[i].kind = "block" /\ text[i].topic = topic

\* the text has a block that says the topic's data could not be had
HasUnavailableBlock(text, topic) ==
    \E i \in 1..Len(text) :
        /\ text[i].kind = "block"
        /\ text[i].topic = topic
        /\ text[i].form \in {"unavailable", "attempted"}

\* the calls logged for one fetcher
CallsOf(fn) == SelectSeq(gateway_calls, LAMBDA c : c.fn = fn)

\* the vector store query of this request raised
StoreFailed == "Exception" \in Range(store_queries)

\* enhance_query_with_realtime_data is over, by return or by exception
EnhanceOver == enhance \in {"returned", "raised"}

Fetchers == {"search_flights", "get_hotel_offers", "get_weather_data", "get_currency_rates"}

\* C1: whenever the call of a gateway (flight, hotel, weather, currency) was issued and
\* failed, or its provider is not configured, the real-time enrichment still returns
\* normally and the composed context has an explicit "data unavailable" block for
\* that gateway.
C1_FailedGatewayLeavesUnavailableBlock ==
    EnhanceOver =>
        \A i \in 1..Len(gateway_calls) :
            gateway_calls[i].returned # "data" =>
                /\ enhance = "returned"
                /\ HasUnavailableBlock(realtime_context, TopicOf(gateway_calls[i].fn))

\* the query asks for the fetcher: its section of the enrichment reaches the call
Requested(fn) ==
    CASE fn = "search_flights" -> FlightRequested
      [] fn = "get_hotel_offers" -> HotelRequested
      [] fn = "get_weather_data" -> WeatherRequested
      [] fn = "get_currency_rates" -> CurrencyRequested

\* the rank of a topic in the standard order
TopicRank(topic) ==
    CASE topic = "FLIGHT" -> 1
      [] topic = "HOTEL" -> 2
      [] topic = "WEATHER" -> 3
      [] topic = "CURRENCY" -> 4

\* a gateway of this request failed: its call returned an error, or the enrichment
\* was left by an exception
GatewayFailed ==
    \/ enhance = "raised"
    \/ \E i \in 1..Len(gateway_calls) : gateway_calls[i].returned # "data"

\* the blocks of the text are in the standard order, one per topic at most
InStandardOrder(text) ==
    LET blocks == Blocks(text)
    IN  \A i, j \in 1..Len(blocks) :
            i < j => TopicRank(blocks[i].topic) < TopicRank(blocks[j].topic)

\* C2: the gateways are independent: where one gateway fails, the call of every other
\* gateway the query asks for is still issued, and the blocks of the successful
\* gateways and the retrieved passages are in the context given to the prompt, in the
\* standard order.
C2_GatewaysIndependent ==
    (pc = "done" /\ ~StoreFailed /\ GatewayFailed) =>
        /\ \A fn \in Fetchers : Requested(fn) => CallsOf(fn) # <<>>
        /\ prompt # NoPrompt
        /\ \A i \in 1..Len(gateway_calls) :
              gateway_calls[i].returned = "data" =>
                  HasBlock(prompt.context, TopicOf(gateway_calls[i].fn))
        /\ InStandardOrder(prompt.context)
        /\ Content(prompt.context) =
              Blocks(prompt.context) \o [i \in 1..Len(documents) |-> documents[i][1]]

\* C3: when the vector store query fails, the retrieved passages count as empty and
\* the model is still called once, with a context made of the real-time blocks alone.
C3_StoreFailureLeavesRealtimeBlocks ==
    (pc = "done" /\ StoreFailed) =>
        /\ Len(llm_calls) = 1
        /\ prompt # NoPrompt
        /\ Content(prompt.context) = Content(realtime_context)

\* the largest character budget the budget property is tried with
MaxBudget == 3

\* a lower bound of len(text): a separator is the two characters "\n\n", a block or a
\* document is one character at least
MinChars(text) == Len(text) + Cardinality({i \in 1..Len(text) : text[i].kind = "sep"})

\* C4: when the composed context is longer than the configured character budget, the
\* context given to the prompt is cut down to the budget (whole leading blocks kept,
\* trailing blocks dropped), so it is never longer than the budget.
C4_ContextWithinBudget ==
    prompt # NoPrompt =>
        \A budget \in 1..MaxBudget :
            MinChars(BuildContext(realtime_context, documents)) > budget =>
                MinChars(prompt.context) <= budget

\* C7: when the query names the flight or the hotel topic and the dates that topic
\* needs are missing, the gateway is not called and the context has a block saying
\* that the request is incomplete.
C7_MissingDatesLeaveIncompleteBlock ==
    enhance = "returned" =>
        /\ (AnyKeywordIn(flight_keywords, Lower(user_query)) /\ SearchDate(user_query) = <<>>) =>
              /\ CallsOf("search_flights") = <<>>
              /\ HasBlock(realtime_context, "FLIGHT")
        /\ (AnyKeywordIn(hotel_keywords, Lower(user_query))
                /\ Len(FindAllDates(user_query, 1)) < 2) =>
              /\ CallsOf("get_hotel_offers") = <<>>
              /\ HasBlock(realtime_context, "HOTEL")

\* the query has a keyword of one of the four topic vocabularies
HasTopicKeyword(query) ==
    \E keywords \in {flight_keywords, currency_keywords, weather_keywords, hotel_keywords} :
        AnyKeywordIn(keywords, Lower(query))

\* C5: for a query with none of the topic keywords (flight, currency, weather and
\* hotel vocabularies) the enrichment issues no gateway call, contacts no provider and
\* returns an empty real-time context.  Stated from the effect: whenever a request has
\* a gateway call, a provider request, a block or an enrichment that did not return,
\* its query has a topic keyword.
C5_NoKeywordNoGatewayCall ==
    LET quiet == /\ gateway_calls = <<>>
                 /\ provider_requests = <<>>
                 /\ additional_context = <<>>
                 /\ realtime_context = <<>>
                 /\ enhance # "raised"
                 /\ pc \in {"store", "llm", "done"} => enhance = "returned"
    IN  (pc # "idle" /\ ~quiet) => HasTopicKeyword(user_query)

\* a query without topic keywords, with city names in it, has been through the
\* enrichment and its prompt is built
C5_Witness ==
    /\ pc = "llm"
    /\ ~HasTopicKeyword(user_query)
    /\ cities # <<>>
    /\ enhance = "returned"
    /\ prompt.context = Join(BlankLine, documents)

\* the pieces of a sequence of texts, one after the other
RECURSIVE Flatten(_)
Flatten(texts) == IF texts = <<>> THEN <<>> ELSE Head(texts) \o Flatten(Tail(texts))

\* C6: in every context given to the prompt the real-time blocks come first, in the
\* order FLIGHT, HOTEL, WEATHER, CURRENCY for the topics that produced a block, then the
\* retrieved documents in the order the store returned them; consecutive blocks are
\* separated by one blank line.
C6_ContextOrder ==
    prompt # NoPrompt =>
        LET text == prompt.context
        IN  /\ Blocks(text) = Flatten(additional_context)
            /\ InStandardOrder(text)
            /\ Content(text) = Blocks(text) \o Flatten(documents)
            /\ text # <<>> => text[1].kind # "sep"
            /\ \A i \in 1..(Len(text) - 1) :
                  (text[i].kind = "sep") # (text[i + 1].kind = "sep")

\* a context of four blocks, one per topic, and two documents is given to the prompt
C6_Witness ==
    /\ prompt # NoPrompt
    /\ Len(Blocks(prompt.context)) = 4
    /\ Len(documents) >= 2
    /\ Len(prompt.context) = 2 * (4 + Len(documents)) - 1

\* the endpoints of the flight and hotel provider
AmadeusEndpoints ==
    {"amadeus.shopping.flight_offers_search",
     "amadeus.reference_data.locations.hotels.by_city",
     "amadeus.shopping.hotel_offers_search"}

\* one of the two provider credentials is not set
CredentialsAbsent == ~(environ.AMADEUS_API_KEY /\ environ.AMADEUS_API_SECRET)

\* what a fetcher yields when it answers "not configured" without a provider call
NotConfigured ==
    [dict |-> [error |-> "Amadeus API not configured"], requests |-> <<>>, raises |-> ""]

\* arguments the two fetchers are tried with: empty texts and the ones of the query
SampleCodes == {<<>>, <<"C", "D", "G">>, <<"L", "A">>}

SampleDates == {<<>>, SearchDate(user_query)}

\* C8: when the flight and hotel provider credentials are absent, search_flights and
\* get_hotel_offers return, for every input, an error value with the reason
\* "Amadeus API not configured"; they raise nothing and contact no provider.
C8_NotConfiguredIsAnError ==
    (pc # "idle" /\ CredentialsAbsent) =>
        /\ \A i \in 1..Len(gateway_calls) :
              gateway_calls[i].fn \in {"search_flights", "get_hotel_offers"} =>
                  /\ gateway_calls[i].returned = "error"
                  /\ gateway_calls[i].error = "Amadeus API not configured"
        /\ \A i \in 1..Len(provider_requests) : provider_requests[i].endpoint \notin AmadeusEndpoints
        /\ pc = "flight" =>
              \A a, b \in SampleCodes, d \in SampleDates :
                  /\ \A o \in FlightOutcomes : SearchFlights(amadeus, a, b, d, o) = NotConfigured
                  /\ \A o \in HotelOutcomes : GetHotelOffers(amadeus, a, d, d, o) = NotConfigured

\* with one credential of the two set, a flight search and a hotel search have both
\* been called and have both answered "not configured"
C8_Witness ==
    /\ environ.AMADEUS_API_KEY /\ ~environ.AMADEUS_API_SECRET
    /\ pc = "done"
    /\ \A fn \in {"search_flights", "get_hotel_offers"} :
          \E i \in 1..Len(gateway_calls) :
              /\ gateway_calls[i].fn = fn
              /\ gateway_calls[i].error = "Amadeus API not configured"

\* C9: every gateway fetcher (search_flights, get_hotel_offers, get_weather_data,
\* get_currency_rates) catches every failure of its provider call and returns an
\* error value with the failure's text: no call of a fetcher ends in an exception.
C9_FetchersCatchProviderFailures ==
    \A i \in 1..Len(gateway_calls) :
        /\ gateway_calls[i].returned # "raised"
        /\ gateway_calls[i].failed =>
              /\ gateway_calls[i].returned = "error"
              /\ gateway_calls[i].error # ""

\* the four fetchers have been called in one request, the provider call of each has
\* failed, and the request went on to its prompt
C9_Witness ==
    /\ prompt # NoPrompt
    /\ \A fn \in Fetchers :
          \E i \in 1..Len(gateway_calls) :
              /\ gateway_calls[i].fn = fn
              /\ gateway_calls[i].failed
              /\ gateway_calls[i].returned = "error"

\* C10: every request calls the language model exactly once, without retry; when that
\* call raises, generate_response returns an error value that carries the message of
\* the exception, and it never raises to its caller.
C10_OneModelCallErrorsReturned ==
    /\ Len(llm_calls) <= 1
    /\ pc = "done" =>
          /\ Len(llm_calls) = 1
          /\ result # NoResult
          /\ llm_calls[1] # "completion" => result = [error |-> TRUE, text |-> llm_calls[1]]
          /\ llm_calls[1] = "completion" => ~result.error

\* the word is a token of three upper-case letters
IsCodeToken(word) == Len(word) = 3 /\ \A i \in 1..3 : IsUpper(word[i])

\* the word, lower-cased, is the given lower-case word
IsWord(word, lower) == Lower(word) = lower

\* the pairs (XXX, YYY) of the well-formed routes "from XXX to YYY" of the query, XXX and
\* YYY tokens of three upper-case letters
WellFormedRoutes(query) ==
    LET words == Split(query)
    IN  { << words[i + 1], words[i + 3] >> : i \in
            { i \in 1..(Len(words) - 3) :
                /\ IsWord(words[i], <<"f", "r", "o", "m">>)
                /\ IsCodeToken(words[i + 1])
                /\ IsWord(words[i + 2], <<"t", "o">>)
                /\ IsCodeToken(words[i + 3]) } }

\* C11: for every flight query that contains a well-formed "from XXX to YYY", XXX and
\* YYY tokens of three upper-case letters, the origin and the destination of the flight
\* route are exactly XXX and YYY, unchanged, and so are the ones a flight search is
\* called with.
C11_CodeRouteUnchanged ==
    (pc # "idle" /\ AnyKeywordIn(flight_keywords, Lower(user_query))
        /\ WellFormedRoutes(user_query) # {}) =>
            /\ FlightRoute(user_query) \in WellFormedRoutes(user_query)
            /\ \A i \in 1..Len(gateway_calls) :
                  gateway_calls[i].fn = "search_flights" =>
                      << gateway_calls[i].args[1], gateway_calls[i].args[2] >>
                          \in WellFormedRoutes(user_query)

\* the keys of the city-name table
CityNames == { city_name_mapping[i][1] : i \in 1..Len(city_name_mapping) }

\* the pairs of table cities of the routes "from <City> to <City> on" of the query
CityRoutes(query) ==
    LET words == Split(query)
    IN  { << words[i + 1], words[i + 3] >> : i \in
            { i \in 1..(Len(words) - 4) :
                /\ IsWord(words[i], <<"f", "r", "o", "m">>)
                /\ Upper(words[i + 1]) \in CityNames
                /\ IsWord(words[i + 2], <<"t", "o">>)
                /\ Upper(words[i + 3]) \in CityNames
                /\ IsWord(words[i + 4], <<"o", "n">>) } }

\* the query has two tokens of three letters joined by "to"
HasCodeTokenPair(query) ==
    LET words == Split(query)
    IN  \E i \in 1..(Len(words) - 2) :
            /\ IsCodeToken(Upper(words[i]))
            /\ IsWord(words[i + 1], <<"t", "o">>)
            /\ IsCodeToken(Upper(words[i + 2]))

\* C12: for a flight query "from <City> to <City> on <date>" without a pair of
\* three-letter code tokens joined by "to", the route comes from the city pattern and
\* both cities, when they are in the city-name table, give their table codes as the
\* origin and the destination of the flight search.
C12_CityRouteResolved ==
    (pc # "idle" /\ AnyKeywordIn(flight_keywords, Lower(user_query))
        /\ ~HasCodeTokenPair(user_query) /\ CityRoutes(user_query) # {}) =>
            LET codes == { << DictGet(city_name_mapping, Upper(r[1]), <<>>),
                              DictGet(city_name_mapping, Upper(r[2]), <<>>) >> :
                           r \in CityRoutes(user_query) }
            IN  /\ FlightRoute(user_query) \in codes
                /\ \A i \in 1..Len(gateway_calls) :
                      gateway_calls[i].fn = "search_flights" =>
                          << gateway_calls[i].args[1], gateway_calls[i].args[2] >> \in codes

\* the query "What's the weather in Paris?"
WeatherInParis == Phrases[4]

\* C13: for the query "What's the weather in Paris?" the only topic is WEATHER, the
\* locations are exactly [Paris], exactly one weather fetch is issued, for Paris, no
\* flight, hotel or currency fetch, and one store query; the context given to the
\* prompt begins with the weather block.
C13_WeatherInParis ==
    (pc # "idle" /\ user_query = WeatherInParis) =>
        /\ { fn \in Fetchers : Requested(fn) } = {"get_weather_data"}
        /\ cities = << <<"P","a","r","i","s">> >>
        /\ \A i \in 1..Len(gateway_calls) :
              /\ gateway_calls[i].fn = "get_weather_data"
              /\ gateway_calls[i].args = << <<"P","a","r","i","s">> >>
        /\ Len(gateway_calls) <= 1
        /\ prompt # NoPrompt =>
              /\ Len(gateway_calls) = 1
              /\ Len(store_queries) = 1
              /\ prompt.context # <<>>
              /\ prompt.context[1].kind = "block"
              /\ prompt.context[1].topic = "WEATHER"

\* the query "flight from CDG to JFK on 2025-06-01"
FlightCdgJfk == Phrases[1]

\* C14: for the query "flight from CDG to JFK on 2025-06-01" the flight fetch is called
\* with origin CDG, destination JFK and departure date 2025-06-01, the provider is asked
\* for 1 adult, and no other gateway is called; when the provider returns no offer, the
\* block says that no flights were found for the route and date and has no price.
C14_FlightCdgJfk ==
    (pc # "idle" /\ user_query = FlightCdgJfk) =>
        /\ Len(gateway_calls) <= 1
        /\ pc # "flight" => Len(gateway_calls) = 1
        /\ \A i \in 1..Len(gateway_calls) :
              /\ gateway_calls[i].fn = "search_flights"
              /\ gateway_calls[i].args =
                    << <<"C","D","G">>, <<"J","F","K">>, <<"2","0","2","5","-","0","6","-","0","1">> >>
              /\ (gateway_calls[i].returned = "data" /\ gateway_calls[i].count = 0) =>
                    additional_context =
                        << Block("FLIGHT", "attempted", "No flights found for this route/date") >>
        /\ Len(provider_requests) <= 1
        /\ \A i \in 1..Len(provider_requests) :
              /\ provider_requests[i].endpoint = "amadeus.shopping.flight_offers_search"
              /\ provider_requests[i].params.originLocationCode = <<"C","D","G">>
              /\ provider_requests[i].params.destinationLocationCode = <<"J","F","K">>
              /\ provider_requests[i].params.departureDate = <<"2","0","2","5","-","0","6","-","0","1">>
              /\ provider_requests[i].params.adults = 1

\* the query has been answered after a flight search for which the provider had no
\* offer, and the block about it is in the prompt
C14_Witness ==
    /\ pc = "done"
    /\ user_query = FlightCdgJfk
    /\ Len(provider_requests) = 1
    /\ gateway_calls[1].returned = "data"
    /\ gateway_calls[1].count = 0
    /\ HasBlock(prompt.context, "FLIGHT")

\* C15: in every request the language model is called only after the enrichment, with
\* every gateway call of the request, and the store query are over; once the model has
\* been called, no gateway call, provider request or store query is made for the request.
C15_ModelCallIsLast ==
    [][ /\ (llm_calls' # llm_calls /\ llm_calls' # <<>>) =>
              /\ enhance = "returned"
              /\ Len(store_queries) = 1
              /\ \A i \in 1..Len(gateway_calls) : gateway_calls[i].returned \in {"data", "error"}
              /\ gateway_calls' = gateway_calls
              /\ provider_requests' = provider_requests
              /\ store_queries' = store_queries
        /\ (llm_calls # <<>> /\ llm_calls' # <<>>) =>
              /\ gateway_calls' = gateway_calls
              /\ provider_requests' = provider_requests
              /\ store_queries' = store_queries ]_vars

\* the model has been called in a request that called the four gateways and the store
C15_Witness ==
    /\ pc = "done"
    /\ Len(llm_calls) = 1
    /\ Len(gateway_calls) = 4
    /\ Len(store_queries) = 1

\* the text has the shape YYYY-MM-DD
IsDateShape(d) ==
    /\ Len(d) = 10
    /\ \A j \in {1, 2, 3, 4, 6, 7, 9, 10} : IsDigit(d[j])
    /\ d[5] = "-"
    /\ d[8] = "-"

\* how many texts of the shape YYYY-MM-DD the query has
DateCount(query) ==
    Cardinality({ i \in 1..(Len(query) - 9) : IsDateShape(SubSeq(query, i, i + 9)) })

\* C19: a flight fetch is issued only for a query with at least one YYYY-MM-DD date and
\* a hotel fetch only for a query with at least two; the dates a fetch is called with
\* are dates of that shape found in the query, never missing and never made up.
C19_FetchDatesComeFromTheQuery ==
    \A i \in 1..Len(gateway_calls) :
        LET call == gateway_calls[i]
        IN  /\ call.fn = "search_flights" =>
                  /\ IsDateShape(call.args[3])
                  /\ Contains(user_query, call.args[3])
                  /\ DateCount(user_query) >= 1
            /\ call.fn = "get_hotel_offers" =>
                  /\ IsDateShape(call.args[2])
                  /\ IsDateShape(call.args[3])
                  /\ Contains(user_query, call.args[2])
                  /\ Contains(user_query, call.args[3])
                  /\ DateCount(user_query) >= 2

\* a flight search and a hotel search have been called in one request, with different
\* dates
C19_Witness ==
    /\ CallsOf("search_flights") # <<>>
    /\ CallsOf("get_hotel_offers") # <<>>
    /\ LET hotel == CallsOf("get_hotel_offers")[1] IN hotel.args[2] # hotel.args[3]

\* the number a text of digits stands for
RECURSIVE NumberOf(_)
NumberOf(digits) ==
    IF digits = <<>> THEN 0
    ELSE 10 * NumberOf(SubSeq(digits, 1, Len(digits) - 1))
            + (IndexIn(digits[Len(digits)], DigitChars) - 1)

\* the days of a month
DaysIn(year, month) ==
    IF month = 2
    THEN IF (year % 4 = 0 /\ year % 100 # 0) \/ year % 400 = 0 THEN 29 ELSE 28
    ELSE IF month \in {4, 6, 9, 11} THEN 30 ELSE 31

\* the text of shape YYYY-MM-DD is a date of the calendar
IsCalendarDate(d) ==
    /\ IsDateShape(d)
    /\ LET year == NumberOf(SubSeq(d, 1, 4))
           month == NumberOf(SubSeq(d, 6, 7))
           day == NumberOf(SubSeq(d, 9, 10))
       IN  /\ month \in 1..12
           /\ day \in 1..DaysIn(year, month)

\* C20: a date of the query that is no date of the calendar (month 13, day 45) is
\* malformed input: the flight or hotel call that needs it is skipped, so no fetch is
\* ever called with such a date.
C20_MalformedDateSkipsTheCall ==
    \A i \in 1..Len(gateway_calls) :
        LET call == gateway_calls[i]
        IN  /\ call.fn = "search_flights" => IsCalendarDate(call.args[3])
            /\ call.fn = "get_hotel_offers" =>
                  IsCalendarDate(call.args[2]) /\ IsCalendarDate(call.args[3])

\* the names of the sections of the model input: the system message, then the
\* sections of the prompt
InputSections(p) ==
    << ChatMessages(p)[1].role >>
        \o [ i \in 1..Len(ChatMessages(p)[2].content) |-> ChatMessages(p)[2].content[i].section ]

\* the places of a section in the model input
PlacesOf(name, sections) == { i \in 1..Len(sections) : sections[i] = name }

\* C16: the model input has the system policy first, then the composed context, then
\* the history, then the literal user query, each once; the history section is there
\* only when the history is not empty; the prompt is what rendering the query, the
\* context and the history of the request gives again.
C16_PromptOrder ==
    prompt # NoPrompt =>
        LET sections == InputSections(prompt)
            text == ChatMessages(prompt)[2].content
        IN  /\ ChatMessages(prompt)[1].content = system_prompt
            /\ PlacesOf("system", sections) = {1}
            /\ PlacesOf("context", sections) = {2}
            /\ PlacesOf("history", sections) =
                  IF conversation_history # <<>> THEN {3} ELSE {}
            /\ PlacesOf("question", sections) =
                  IF conversation_history # <<>> THEN {4} ELSE {3}
            /\ text[1].body = context
            /\ \A i \in PlacesOf("question", sections) : text[i - 1].body = user_query
            /\ prompt = BuildPrompt(user_query, context, conversation_history)

\* the model has been called with a prompt that has a history section
C16_Witness ==
    /\ llm_calls # <<>>
    /\ conversation_history # <<>>
    /\ PlacesOf("history", InputSections(prompt)) # {}

\* the turns of the conversation before the message that is being answered
PriorTurns == SubSeq(messages, 1, Len(messages) - 1)

\* the last n of a list
LastOf(n, list) == IF Len(list) > n THEN SubSeq(list, Len(list) - n + 1, Len(list)) ELSE list

\* a turn as a "Role: text" line
RoleLine(turn) == Title(turn.role) \o << ":", " " >> \o turn.content

\* C17: the history in the prompt for a message of the chat page is made of the turns
\* before that message only, the last 5 of them at most, in their order, each
\* rendered as a "Role: text" line.
C17_HistoryIsPriorTurns ==
    (prompt # NoPrompt /\ AwaitingResponse) =>
        LET turns == LastOf(5, PriorTurns)
            lines == [ i \in 1..Len(turns) |-> RoleLine(turns[i]) ]
        IN  /\ prompt.conversation_history = lines
            /\ \A i \in 1..Len(prompt.text) :
                  prompt.text[i].section = "history" =>
                      prompt.text[i].body = Join(<< "\n" >>, lines)

\* C18: the same flight query sent again with the flight provider not configured gets
\* the same "not configured" error from the flight fetch as the first time: one call,
\* no provider request, the same block, whatever the conversation before it.
C18_SameErrorEveryTime ==
    (pc \notin {"idle", "flight"} /\ user_query = FlightCdgJfk /\ CredentialsAbsent) =>
        /\ Len(gateway_calls) = 1
        /\ gateway_calls[1].fn = "search_flights"
        /\ gateway_calls[1].returned = "error"
        /\ gateway_calls[1].error = "Amadeus API not configured"
        /\ provider_requests = <<>>
        /\ enhance = "returned" =>
              additional_context = << Block("FLIGHT", "attempted", "Amadeus API not configured") >>

\* the flight query has been answered and is sent again, with the provider not
\* configured, and the flight fetch has returned
C18_Witness ==
    /\ Len(messages) = 3
    /\ messages[1].content = FlightCdgJfk
    /\ messages[3].content = FlightCdgJfk
    /\ user_query = FlightCdgJfk
    /\ CredentialsAbsent
    /\ pc = "done"
    /\ gateway_calls[1].error = "Amadeus API not configured"

\* the query has "weather", "temperature" or "climate" in it, in any case
HasWeatherWord(query) ==
    \E word \in { <<"w","e","a","t","h","e","r">>,
                  <<"t","e","m","p","e","r","a","t","u","r","e">>,
                  <<"c","l","i","m","a","t","e">> } :
        Contains(Lower(query), word)

\* C21: when the weather section is over, a weather fetch has been issued if and only
\* if the query has a weather keyword and a location was extracted; at no time has a
\* request more than one weather fetch, and the fetch is for the first extracted
\* location.
C21_WeatherFetchIffKeywordAndLocation ==
    /\ Len(CallsOf("get_weather_data")) <= 1
    /\ \A i \in 1..Len(gateway_calls) :
          gateway_calls[i].fn = "get_weather_data" =>
              cities # <<>> /\ gateway_calls[i].args = << cities[1] >>
    /\ (pc = "currency" \/ enhance = "raised") =>
          ( CallsOf("get_weather_data") # <<>>
              <=> (cities # <<>> /\ HasWeatherWord(user_query)) )

\* a request with a weather keyword and two extracted locations is over, and the
\* weather of the first location has been fetched
C21_Witness ==
    /\ pc = "currency"
    /\ Len(cities) >= 2
    /\ cities[1] # cities[2]
    /\ Len(CallsOf("get_weather_data")) = 1
    /\ CallsOf("get_weather_data")[1].args = << cities[1] >>

\* the characters str.strip('?,!.') and the like take for punctuation
Punctuation == {"?", ",", "!", ".", ";", ":", "'", "\"", "(", ")"}

\* the query has one of the cue words of the city extraction in it, in any case
HasCueWord(query) == \E k \in 1..Len(city_keywords) : Contains(Lower(query), city_keywords[k])

\* C22: every extracted location starts with an uppercase letter, is longer than 2
\* characters, has no punctuation at either end and is no word of the stoplist;
\* a query without a cue word has no location.
C22_LocationTokens ==
    pc # "idle" =>
        /\ \A i \in 1..Len(cities) :
              /\ Len(cities[i]) > 2
              /\ IsUpper(cities[i][1])
              /\ cities[i][1] \notin Punctuation
              /\ cities[i][Len(cities[i])] \notin Punctuation
              /\ cities[i] \notin Range(skip_words)
        /\ ~ HasCueWord(user_query) => cities = <<>>

\* the text in capitals, without the whitespace at its ends
Normalized(token) == Strip(Upper(token), Whitespace)

\* the code the three rules give for a location text: (a) a text of 3 characters is
\* looked up in the 3-letter-code table and stands for itself when absent; (b) any
\* other text is looked up in the city-name table; (c) when absent there, the code is
\* the first 3 characters, in capitals
CodeByRule(token) ==
    LET name == Normalized(token)
        InTable(table) == \E r \in 1..Len(table) : table[r][1] = name
        Entry(table) == table[CHOOSE r \in 1..Len(table) : table[r][1] = name][2]
    IN  IF Len(name) = 3
        THEN IF InTable(CITY_TO_AIRPORT) THEN Entry(CITY_TO_AIRPORT) ELSE name
        ELSE IF InTable(city_name_mapping) THEN Entry(city_name_mapping)
             ELSE Upper(SubSeq(name, 1, IF Len(name) < 3 THEN Len(name) ELSE 3))

\* the rule that gives the code of a location text: "a", "b" or "c"
RuleOf(token) ==
    LET name == Normalized(token)
    IN  IF Len(name) = 3 THEN "a"
        ELSE IF \E r \in 1..Len(city_name_mapping) : city_name_mapping[r][1] = name
             THEN "b" ELSE "c"

\* C23: the origin and the destination of the flight fetch are the codes the three
\* rules give, in their order, for the two location texts of the route match; a code
\* is given for every location text.  Stated of the fetch the flight section has just
\* called.
C23_LocationCodeRules ==
    (pc = "hotel" /\ gateway_calls # <<>>) =>
        LET match == RouteMatch(user_query)
            call == gateway_calls[1]
        IN  /\ call.fn = "search_flights"
            /\ match # <<>>
            /\ call.args[1] = CodeByRule(match[1])
            /\ call.args[2] = CodeByRule(match[2])
            /\ call.args[1] # <<>>
            /\ call.args[2] # <<>>

\* a flight fetch has been called for a route of a city in the city-name table and a
\* text that no table has
C23_Witness ==
    /\ pc = "hotel"
    /\ CallsOf("search_flights") # <<>>
    /\ RouteMatch(user_query) # <<>>
    /\ { RuleOf(RouteMatch(user_query)[1]), RuleOf(RouteMatch(user_query)[2]) } = {"b", "c"}

\* the places of the query where a text of the shape YYYY-MM-DD starts
DatePlaces(query) == { i \in 1..(Len(query) - 9) : IsDateShape(SubSeq(query, i, i + 9)) }

\* the k-th date of the query in the order of occurrence, <<>> when it has fewer
NthDate(query, k) ==
    LET places == DatePlaces(query)
        at == { i \in places : Cardinality({ j \in places : j < i }) = k - 1 }
    IN  IF at = {} THEN <<>> ELSE LET i == CHOOSE j \in at : TRUE IN SubSeq(query, i, i + 9)

\* C24: the flight fetch is called with the first YYYY-MM-DD text of the query as
\* departure date; the hotel fetch with the first as check-in and the second as
\* check-out, in the order they are written in the query.  Stated of the fetches when
\* the flight section or the hotel section is just over.
C24_DatesInOrderOfOccurrence ==
    pc \in {"hotel", "weather"} =>
        \A i \in 1..Len(gateway_calls) :
            LET call == gateway_calls[i]
            IN  /\ call.fn = "search_flights" => call.args[3] = NthDate(user_query, 1)
                /\ call.fn = "get_hotel_offers" =>
                      /\ call.args[2] = NthDate(user_query, 1)
                      /\ call.args[3] = NthDate(user_query, 2)

\* a flight and a hotel fetch have been called for a query with two different dates
C24_Witness ==
    /\ pc = "weather"
    /\ CallsOf("search_flights") # <<>>
    /\ CallsOf("get_hotel_offers") # <<>>
    /\ NthDate(user_query, 2) # <<>>
    /\ NthDate(user_query, 1) # NthDate(user_query, 2)
    /\ CallsOf("search_flights")[1].args[3] = CallsOf("get_hotel_offers")[1].args[2]

\* C27: the origin and the destination of every flight fetch are texts of exactly 3
\* uppercase letters.
C27_RouteCodesHaveThreeLetters ==
    \A i \in 1..Len(gateway_calls) :
        gateway_calls[i].fn = "search_flights" =>
            /\ IsCodeToken(gateway_calls[i].args[1])
            /\ IsCodeToken(gateway_calls[i].args[2])

\* C25: a flight search the provider answered keeps 3 offers at most, the first ones of
\* the provider's response in the provider's order, and its count is the number of
\* offers kept; an answer without offers is no error: the count is 0 and the message
\* says that no flights were found.
C25_FirstOffersInProviderOrder ==
    \A i \in 1..Len(gateway_calls) :
        LET call == gateway_calls[i]
        IN  (call.fn = "search_flights" /\ call.returned = "data") =>
                /\ Len(call.flights) <= 3
                /\ Len(call.flights) <= Len(call.response)
                /\ call.flights = SubSeq(call.response, 1, Len(call.flights))
                /\ Len(call.response) <= 3 => call.flights = call.response
                /\ call.count = Len(call.flights)
                /\ call.response = <<>> =>
                      /\ call.error = ""
                      /\ call.count = 0
                      /\ call.message = "No flights found for this route/date"

\* a flight search has kept the first 3 of more offers
C25_Witness ==
    \E i \in 1..Len(gateway_calls) :
        /\ gateway_calls[i].fn = "search_flights"
        /\ gateway_calls[i].returned = "data"
        /\ Len(gateway_calls[i].response) > 3
        /\ gateway_calls[i].count = 3

(***************************************************************************)
(* The conversation of the chat page.                                      *)
(***************************************************************************)
\* the roles of a message list alternate user, assistant, starting with user
Alternates(msgs) ==
    \A i \in 1..Len(msgs) : msgs[i].role = IF i % 2 = 1 THEN user ELSE assistant

\* one message was appended to the list
OneAppended(before, after) ==
    Len(after) = Len(before) + 1 /\ SubSeq(after, 1, Len(before)) = before

\* C29: after any sequence of form submissions, sample query clicks and Clear
\* clicks the messages alternate user, assistant, starting with user; when the
\* page is at rest every user message has its assistant message (a reply or an
\* error text), the list only changes by one appended message or by being
\* emptied, and a click that changes it while the page is at rest and leaves it
\* at rest (Clear) leaves it empty
C29_MessagesAlternate ==
    /\ [] ( /\ Alternates(messages)
            /\ (pc = "idle" => Len(messages) % 2 = 0) )
    /\ [][ /\ messages' # messages =>
                  messages' = <<>> \/ OneAppended(messages, messages')
           /\ (pc = "idle" /\ pc' = "idle" /\ messages' # messages) => messages' = <<>>
         ]_vars

\* a conversation at rest with a sample query answered by an error text after a
\* submitted text answered by a reply
C29_Witness ==
    /\ pc = "idle"
    /\ Len(messages) = 4
    /\ messages[1].content = Phrases[1]
    /\ messages[2].content = << "completion" >>
    /\ messages[3].content = sample_queries[4]
    /\ messages[4] = Message(assistant, << "ConnectionError" >>)

(***************************************************************************)
(* The knowledge base.                                                     *)
(***************************************************************************)
\* C26: the documents added through VectorStoreManager are documents of the
\* collection generate_response queries: the manager and the engine keep the
\* same collection (the same storage path and the same name), and the documents
\* generate_response retrieves after an ingestion that added documents include
\* an ingested one when nothing else was stored
C26_IngestedDocumentsAreQueried ==
    /\ ingestion.added \subseteq
          { e.document : e \in collections[Persisted(RAGEngineCollection)] }
    /\ ( /\ retrieval.by = "generate_response"
         /\ collections[Persisted(VectorStoreManager)] # {}
         /\ \A e \in collections[Persisted(RAGEngineCollection)] :
                e \in collections[Persisted(VectorStoreManager)] )
       => retrieval.documents # {}

\* C28: retrieve_context returns the documents retrieved, or the empty list, and
\* never raises
C28_RetrieveContextNeverRaises ==
    retrieval.by = "retrieve_context" => retrieval.raises = ""

\* C30: the ids the populate script makes for the chunks of one run are pairwise
\* distinct, so that no two chunks are added under the same id
C30_ChunkIdsDistinct ==
    \A i, j \in 1..Len(ingestion.ids) : i # j => ingestion.ids[i] # ingestion.ids[j]
====
